---- MODULE Spec2Model ----
(***************************************************************************)
(* AutoStream stream-selection add-on (keypop3750/autostream-addon).       *)
(*                                                                         *)
(* The repository holds eight revisions of index.js.  The model carries    *)
(* the revision as the variable ver, and every operator that differs       *)
(* between revisions takes it as a parameter:                              *)
(*   v150  src/unnamed/part_001            (manifest 1.5.0)                *)
(*   v161  src/unnamed/part_003            (manifest 1.6.1)                *)
(*   v162  src/unnamed/part_004, 343-788   (manifest 1.6.2)                *)
(*   v170  src/unnamed/part_002            (manifest 1.7.0)                *)
(*   v171  src/unnamed/part_000            (manifest 1.7.1)                *)
(*   v182  src/index.js, 1-470             (manifest 1.8.2)                *)
(*   v192  src/unnamed/part_004, 1-342     (manifest 1.9.2)                *)
(*   v193  src/index.js, 472-946           (manifest 1.9.3)                *)
(*                                                                         *)
(* Text is a sequence of whitespace-free words (tokens); joining with " " *)
(* is concatenation of sequences, and String.includes(kw) is "some word    *)
(* contains kw", because no keyword of the program contains a blank.       *)
(* Real numbers are kept as scaled integers: ranks in thousandths, ratio   *)
(* thresholds in tenths.                                                   *)
(***************************************************************************)
EXTENDS Integers, Sequences, FiniteSets, TLC

Versions == {"v150", "v161", "v162", "v170", "v171", "v182", "v192", "v193"}

(***************************************************************************)
(* Text                                                                    *)
(***************************************************************************)

\* String.prototype.toLowerCase on one word of the vocabulary.
ToLower(tok) ==
  CASE tok = "4K"     -> "4k"
    [] tok = "UHD"    -> "uhd"
    [] tok = "CAM"    -> "cam"
    [] tok = "BluRay" -> "bluray"
    [] tok = "Seeds"  -> "seeds"
    [] OTHER          -> tok

\* The keywords of the program that occur as substrings of a lower-case word.
TokKw(tok) ==
  CASE tok = "2160p"  -> {"2160", "2160p"}
    [] tok = "2160"   -> {"2160"}
    [] tok = "4k"     -> {"4k"}
    [] tok = "uhd"    -> {"uhd"}
    [] tok = "1440p"  -> {"1440", "1440p"}
    [] tok = "2k"     -> {"2k"}
    [] tok = "1080p"  -> {"1080", "1080p"}
    [] tok = "1080"   -> {"1080"}
    [] tok = "720p"   -> {"720", "720p"}
    [] tok = "720"    -> {"720"}
    [] tok = "480p"   -> {"480"}
    [] tok = "cam"    -> {"cam"}
    [] tok = "webdl"  -> {"webdl"}
    [] tok = "webrip" -> {"webrip"}
    [] tok = "bluray" -> {"blu", "bluray"}
    [] tok = "remux"  -> {"remux"}
    [] tok = "rd"     -> {"rd"}
    [] tok = "hevc"   -> {"hevc"}
    [] tok = "x265"   -> {"x265"}
    [] tok = "ad"     -> {"ad"}
    [] tok = "pm"     -> {"pm"}
    [] tok = "alldebrid"   -> {"alldebrid"}
    [] tok = "premiumize"  -> {"premiumize"}
    [] tok = "real-debrid" -> {"real-debrid"}
    [] OTHER          -> {}

\* The keywords kw with label.toLowerCase().includes(kw).
Keywords(label) == UNION {TokKw(ToLower(label[i])) : i \in 1..Len(label)}

\* A word that is a decimal number: its value, else -1.
NumVal(tok) ==
  CASE tok = "0"     -> 0
    [] tok = "1"     -> 1
    [] tok = "5"     -> 5
    [] tok = "20"    -> 20
    [] tok = "50"    -> 50
    [] tok = "400"   -> 400
    [] tok = "720"   -> 720
    [] tok = "1080"  -> 1080
    [] tok = "1500"  -> 1500
    [] tok = "2160"  -> 2160
    [] tok = "10000" -> 10000
    [] tok = "1000000" -> 1000000
    [] OTHER         -> -1

\* Number of decimal digits of a number word.
Digits(tok) ==
  CASE tok \in {"0", "1", "5"}           -> 1
    [] tok \in {"20", "50"}              -> 2
    [] tok \in {"400", "720"}            -> 3
    [] tok \in {"1080", "1500", "2160"}  -> 4
    [] tok = "10000"                     -> 5
    [] tok = "1000000"                   -> 7
    [] OTHER                             -> 0

\* A number word behind an opening bracket ("[20"): the number word.  \b
\* matches between the bracket and the first digit.
Inner(tok) ==
  CASE tok = "[5"  -> "5"
    [] tok = "[20" -> "20"
    [] OTHER       -> tok

\* Words that begin with seed, s: or se: (case-insensitively).
SeedUnit(tok) == ToLower(tok) \in {"seed", "seeds", "seeders", "seeds:", "s:", "se:", "seeds]"}
\* Words that are seed or seeds, optionally followed by : or -.
SeedLead(tok) == ToLower(tok) \in {"seed", "seeds", "seeds:", "seed:", "seeds-"}
\* Words that begin with seed.
SeedWord(tok) == ToLower(tok) \in {"seed", "seeds", "seeders", "seeds:", "seeds]"}

\* typeof x !== "number" (also the null of the 1.9.2 extractSeeders).
NoNum == 0 - 1

(***************************************************************************)
(* Candidate records.  A field that is absent, null or "" is "" (all are   *)
(* falsy); a missing text field is the empty sequence.  titleNum says that *)
(* the upstream sent title as a JSON number, not a string.  seeders and    *)
(* seeds are NoNum when they are not of type number.  url/externalUrl/     *)
(* magnet are link records, kind "none" when absent.                       *)
(***************************************************************************)
NoLink == [kind |-> "none", v |-> "", dn |-> <<>>]
Http(v) == [kind |-> "http", v |-> v, dn |-> <<>>]
Magnet(v) == [kind |-> "magnet", v |-> v, dn |-> <<>>]
Other(v) == [kind |-> "other", v |-> v, dn |-> <<>>]
Truthy(link) == link.kind # "none"

\* Upstream sources are named by a pair; a raw record carries no __source.
NoSrc == <<"", 0>>

Cand(title, seeders, url, infoHash) ==
  [title |-> title, titleNum |-> FALSE, name |-> <<>>, description |-> <<>>,
   seeders |-> seeders, seeds |-> NoNum,
   url |-> url, externalUrl |-> NoLink, magnet |-> NoLink, infoHash |-> infoHash,
   src |-> NoSrc]

\* The "none" sentinel (null / undefined) where a candidate is expected.
NoCand == [Cand(<<>>, NoNum, NoLink, "") EXCEPT !.src = <<"none", 0>>]

(***************************************************************************)
(* Candidate Normalizer                                                    *)
(***************************************************************************)

\* Fault: the tests run from the lowest tier upwards.
tagOfKeywordsLowFirst(ver, s) ==
  IF "cam" \in s THEN "CAM"
  ELSE IF "480" \in s THEN "480p"
  ELSE IF "720" \in s THEN "720p"
  ELSE IF "1080" \in s THEN "1080p"
  ELSE IF "1440" \in s \/ "2k" \in s THEN "1440p"
  ELSE IF "2160" \in s \/ "4k" \in s \/ "uhd" \in s THEN "2160p"
  ELSE "SD"

\* The chain of tests of qualityTag, s being the keywords the label includes.
\* 1.9.2 tests /2160p|4k/i, /1440p|2k/i, /1080p/i, /720p/i and returns null.
tagOfKeywords(ver, s) ==
  IF ver = "v192"
  THEN IF "2160p" \in s \/ "4k" \in s THEN "2160p"
       ELSE IF "1440p" \in s \/ "2k" \in s THEN "1440p"
       ELSE IF "1080p" \in s THEN "1080p"
       ELSE IF "720p" \in s THEN "720p"
       ELSE "null"
  ELSE IF "2160" \in s \/ "4k" \in s \/ "uhd" \in s THEN "2160p"
       ELSE IF "1440" \in s \/ "2k" \in s THEN "1440p"
       ELSE IF "1080" \in s THEN "1080p"
       ELSE IF "720" \in s THEN "720p"
       ELSE IF "480" \in s THEN "480p"
       ELSE IF "cam" \in s THEN "CAM"
       ELSE "SD"

qualityTag(ver, label) == tagOfKeywords(ver, Keywords(label))

\* Fault: the tag is printed as it is.
rawTag(tag) == tag

displayTag(tag) == IF tag = "2160p" THEN "4K" ELSE IF tag = "1440p" THEN "2K" ELSE tag

\* Fault: the scores of 1440p and 1080p are exchanged.
qualityScoreSwapped(tag) ==
  CASE tag = "2160p" -> 4000
    [] tag = "1440p" -> 1080
    [] tag = "1080p" -> 1440
    [] tag = "720p"  -> 720
    [] tag = "480p"  -> 480
    [] tag = "CAM"   -> 10
    [] OTHER         -> 360

qualityScoreFromTag(tag) ==
  CASE tag = "2160p" -> 4000
    [] tag = "1440p" -> 1440
    [] tag = "1080p" -> 1080
    [] tag = "720p"  -> 720
    [] tag = "480p"  -> 480
    [] tag = "CAM"   -> 10
    [] OTHER         -> 360

\* [st.title, st.name, st.description].filter(Boolean).join(" ")
\* (1.9.2 joins title and description only).
combinedLabel(ver, st) ==
  IF ver = "v192" THEN st.title \o st.description
  ELSE st.title \o st.name \o st.description

is1080pLabel(ver, label) == qualityTag(ver, label) = "1080p"

\* /\b(\d{2,6})\s*(?:seed(?:ers)?|seeds|s:|se:)/i : positions where it matches.
Match1(text) ==
  {i \in 1..(Len(text) - 1) :
      /\ NumVal(Inner(text[i])) >= 0
      /\ Digits(Inner(text[i])) >= 2 /\ Digits(Inner(text[i])) <= 6
      /\ SeedUnit(text[i + 1])}
\* /\bseeds?\s*[:\-]?\s*(\d{2,6})\b/i : positions of the number where it matches.
Match3(text) ==
  {i \in 2..Len(text) :
      /\ SeedLead(text[i - 1])
      /\ NumVal(text[i]) >= 0
      /\ Digits(text[i]) >= 2 /\ Digits(text[i]) <= 6}
\* 1.9.2: /\b(\d{1,6})\s*seed/i over the title.
Match192(text) ==
  {i \in 1..(Len(text) - 1) :
      /\ NumVal(Inner(text[i])) >= 0
      /\ Digits(Inner(text[i])) >= 1 /\ Digits(Inner(text[i])) <= 6
      /\ SeedWord(text[i + 1])}
Leftmost(S) == CHOOSE i \in S : \A j \in S : i <= j

\* m ? parseInt(m[1], 10) : 0, m being the first pattern that matches
\* (m1: where the first matches, m3: where the third does).
seedAt(text, m1, m3) ==
  IF m1 # {} THEN NumVal(Inner(text[Leftmost(m1)]))
  ELSE IF m3 # {} THEN NumVal(text[Leftmost(m3)])
  ELSE 0

\* Fault: only the first pattern is tried.
TextSeedsFirstOnly(text) == seedAt(text, Match1(text), {})

\* The seed count the regular expressions recover from a text (0 if none).
\* The second pattern of the source, /\[(\d{2,6})\s*seeds?\]/i, matches only
\* where the first already does.
TextSeeds(text) == seedAt(text, Match1(text), Match3(text))

\* 1.9.2: null (NoNum) for no title or no match.
seedAt192(title, m) ==
  IF title = <<>> \/ m = {} THEN NoNum ELSE NumVal(Inner(title[Leftmost(m)]))

\* Fault: the text is read before the numeric fields.
extractSeedersTextFirst(ver, st) ==
  IF TextSeeds(combinedLabel(ver, st)) # 0 THEN TextSeeds(combinedLabel(ver, st))
  ELSE IF st.seeders # NoNum THEN st.seeders
  ELSE IF st.seeds # NoNum THEN st.seeds
  ELSE 0

\* extractSeeders.  1.9.2 reads the title text only and returns null (NoNum)
\* when it finds nothing; its second pattern /\bS:(\d{1,6})\b/i has no word
\* in the vocabulary.
extractSeeders(ver, st) ==
  IF ver = "v192" THEN seedAt192(st.title, Match192(st.title))
  ELSE IF st.seeders # NoNum THEN st.seeders
       ELSE IF st.seeds # NoNum THEN st.seeds
       ELSE TextSeeds(combinedLabel(ver, st))

\* 1.9.2: s.title.match(...) on a title that is a truthy non-string throws.
extractSeedersThrows(ver, st) == ver = "v192" /\ st.titleNum /\ st.title # <<>>

\* The three forEach/if of preferenceBonus, s being the keywords of the label.
bonusOfKeywords(s) ==
    30 * Cardinality({"webdl", "webrip", "blu", "bluray", "remux"} \cap s)
  + 20 * Cardinality({"real-debrid", "rd", "premiumize", "alldebrid", "ad", "pm"} \cap s)
  + (IF "hevc" \in s \/ "x265" \in s THEN 10 ELSE 0)

preferenceBonus(label) == bonusOfKeywords(Keywords(label))

(***************************************************************************)
(* Ranking Function                                                        *)
(***************************************************************************)

\* round(Math.log1p(seeds) * 200 * 1000) for the seed counts of the model.
Log1pMilli(seeds) ==
  CASE seeds = 0     -> 0
    [] seeds = 1     -> 138629
    [] seeds = 5     -> 358352
    [] seeds = 20    -> 608904
    [] seeds = 50    -> 786365
    [] seeds = 400   -> 1198792
    [] seeds = 720   -> 1316128
    [] seeds = 1080  -> 1397128
    [] seeds = 1500  -> 1462777
    [] seeds = 2160  -> 1535665
    [] seeds = 10000 -> 1842088

\* Fault: the speed term is subtracted.
rankStreamSlower(ver, st) ==
    qualityScoreFromTag(qualityTag(ver, combinedLabel(ver, st))) * 1000
  - Log1pMilli(extractSeeders(ver, st))
  + preferenceBonus(combinedLabel(ver, st)) * 1000

\* rankStream, in thousandths.
rankStream(ver, st) ==
    qualityScoreFromTag(qualityTag(ver, combinedLabel(ver, st))) * 1000
  + Log1pMilli(extractSeeders(ver, st))
  + preferenceBonus(combinedLabel(ver, st)) * 1000

\* cands.slice().sort((a, b) => rankStream(b) - rankStream(a))[0] : the sort is
\* stable, so the first element of greatest rank.  cands is not empty.
FirstMaxIdx(scores) ==
  CHOOSE i \in 1..Len(scores) :
    /\ \A j \in 1..Len(scores) : scores[j] <= scores[i]
    /\ \A j \in 1..(i - 1) : scores[j] < scores[i]

TopByRank(ver, cands) ==
  cands[FirstMaxIdx([i \in 1..Len(cands) |-> rankStream(ver, cands[i])])]

(***************************************************************************)
(* Bucket Selector                                                         *)
(***************************************************************************)

\* 1.9.2 keeps the first candidate of the tier with the greatest seed count,
\* starting from bestSeed = -1 with a strict comparison (seed ?? -1).
bestBySeeds(ver, seeded) ==
  IF seeded = <<>> THEN NoCand
  ELSE seeded[FirstMaxIdx([i \in 1..Len(seeded) |-> extractSeeders(ver, seeded[i])])]

\* Fault: the last candidate of the tier is the champion.
bestByRankLast(ver, filtered) ==
  IF filtered = <<>> THEN NoCand ELSE filtered[Len(filtered)]

\* filtered.length ? filtered.sort(...)[0] : null
bestByRank(ver, filtered) ==
  IF filtered = <<>> THEN NoCand ELSE TopByRank(ver, filtered)

bestOfQuality(ver, cands, wantedTag) ==
  IF ver = "v192"
  THEN bestBySeeds(ver, SelectSeq(cands, LAMBDA st :
         /\ qualityTag(ver, combinedLabel(ver, st)) = wantedTag
         /\ extractSeeders(ver, st) > NoNum))
  ELSE bestByRank(ver, SelectSeq(cands, LAMBDA st :
         qualityTag(ver, combinedLabel(ver, st)) = wantedTag))

(***************************************************************************)
(* Downgrade Policy                                                        *)
(***************************************************************************)

\* ratioNeed is in tenths.  1.9.2 has no rule: either test suffices, and a
\* missing seed count is 0.
\* extractSeeders(x) || 0
OrZero(n) == IF n = NoNum THEN 0 ELSE n

\* Fault: no seeder on the higher tier fails the ratio test
\* (ratio = sHigh ? sLow / sHigh : 0).
muchFasterZeroRatio(ver, sLow, sHigh, ratioNeed, deltaNeed, rule) ==
  IF rule = "ratio_or_delta"
  THEN (sHigh # 0 /\ sLow * 10 >= ratioNeed * sHigh) \/ sLow - sHigh >= deltaNeed
  ELSE (sHigh # 0 /\ sLow * 10 >= ratioNeed * sHigh) /\ sLow - sHigh >= deltaNeed

\* Fault: either test suffices under every rule.
muchFasterEither(ver, sLow, sHigh, ratioNeed, deltaNeed, rule) ==
  (sHigh = 0 \/ sLow * 10 >= ratioNeed * sHigh) \/ sLow - sHigh >= deltaNeed

\* The comparison of isMuchFaster on the two seed counts.
muchFaster(ver, sLow, sHigh, ratioNeed, deltaNeed, rule) ==
  IF ver = "v192"
  THEN sLow * 10 >= sHigh * ratioNeed \/ sLow >= sHigh + deltaNeed
  ELSE IF rule = "ratio_or_delta"
       THEN (sHigh = 0 \/ sLow * 10 >= ratioNeed * sHigh) \/ sLow - sHigh >= deltaNeed
       ELSE (sHigh = 0 \/ sLow * 10 >= ratioNeed * sHigh) /\ sLow - sHigh >= deltaNeed

isMuchFaster(ver, lower, higher, ratioNeed, deltaNeed, rule) ==
  muchFaster(ver, OrZero(extractSeeders(ver, lower)), OrZero(extractSeeders(ver, higher)),
             ratioNeed, deltaNeed, rule)

(***************************************************************************)
(* Configuration and sources                                               *)
(***************************************************************************)

\* Number of entries of config.sources and of config.fallback_sources.
NumPrimary == 1
NumFallback == 1
\* Greatest number of records in one upstream response.
MaxStreams == 1

\* A source URL: its name, whether /alldebrid|real-?debrid|premiumize/i
\* matches it, and whether it carries an apikey= parameter.
Source(kind, i, debrid, key) == [name |-> <<kind, i>>, debrid |-> debrid, key |-> key]
SOURCES == [i \in 1..NumPrimary |-> Source("primary", i, FALSE, FALSE)]
FALLBACK_SOURCES == [i \in 1..NumFallback |-> Source("fallback", i, FALSE, FALSE)]

\* PREF: the defaults of Object.assign, and two config.json overrides.
DefaultPREF ==
  [prefer_rule |-> "ratio_and_delta",
   prefer1080_ratio |-> 20, prefer1080_delta |-> 500,
   prefer720_ratio |-> 30, prefer720_delta |-> 1000]
PrefConfigs ==
  {DefaultPREF,
   [DefaultPREF EXCEPT !.prefer_rule = "ratio_or_delta"],
   [DefaultPREF EXCEPT !.prefer1080_ratio = 10, !.prefer1080_delta = 1,
                       !.prefer720_ratio = 10, !.prefer720_delta = 1]}

\* The decoded per-request configuration, by what it asks for:
\*   none         no cfg
\*   invalid      a token that does not decode, or a custom source that is
\*                not an http(s) URL
\*   plain        a custom http(s) source that names no debrid provider
\*   debridNoKey  a debrid provider without an API key
\*   debridKey    a debrid provider with an API key
CfgKinds == {"none", "invalid", "plain", "debridNoKey", "debridKey"}

CustomSource(cfg) ==
  Source("custom", 1, cfg \in {"debridNoKey", "debridKey"}, cfg = "debridKey")

\* resolveSources (1.6.1-1.6.2, 1.8.2-1.9.3), sourcesFromUserConfig (1.7.x);
\* 1.5.0 reads SOURCES only; 1.9.2 prepends a source only for a provider
\* with an API key.
resolveSources(ver, cfg) ==
  IF ver = "v150" THEN SOURCES
  ELSE IF ver = "v192"
       THEN IF cfg = "debridKey" THEN <<CustomSource(cfg)>> \o SOURCES ELSE SOURCES
  ELSE IF cfg \in {"plain", "debridNoKey", "debridKey"}
       THEN <<CustomSource(cfg)>> \o SOURCES
  ELSE SOURCES

\* debridPreferred / debridOK of the handler.
debridOK(ver, usedSources, cfg) ==
  LET named == SelectSeq(usedSources, LAMBDA u : u.debrid)
  IN CASE ver \in {"v161", "v162"} -> named # <<>>
       [] ver \in {"v170", "v171"} -> named # <<>> \/ cfg = "debridNoKey"
       [] ver = "v182"             -> \E i \in 1..Len(usedSources) :
                                         usedSources[i].debrid /\ usedSources[i].key
       [] ver = "v193"             -> named # <<>> /\ named[1].key
       [] OTHER                    -> FALSE

Max(a, b) == IF a >= b THEN a ELSE b

\* Fault: the override halves the step A thresholds.
localPrefHalved(ver, PREF, debrid) ==
  IF ~debrid THEN PREF
  ELSE [PREF EXCEPT !.prefer1080_ratio = @ \div 2, !.prefer1080_delta = @ \div 2]

\* const localPref = { ...PREF }; if (debridOK) { ... Math.max ... }
localPref(ver, PREF, debrid) ==
  IF ~debrid THEN PREF
  ELSE IF ver = "v161"
       THEN [PREF EXCEPT !.prefer1080_ratio = Max(PREF.prefer1080_ratio, 25),
                         !.prefer1080_delta = Max(PREF.prefer1080_delta, 150)]
       ELSE [PREF EXCEPT !.prefer1080_ratio = Max(PREF.prefer1080_ratio, 35),
                         !.prefer1080_delta = Max(PREF.prefer1080_delta, 1000)]

\* Fault: const localPref = PREF; the Math.max assignments reach PREF.
prefAliased(ver, PREF, debrid) == localPref(ver, PREF, debrid)

\* PREF after the handler made localPref: localPref is a copy ({ ...PREF }),
\* so the assignments to it leave the fields of PREF as they were.
prefAfter(ver, PREF, debrid) == PREF

(***************************************************************************)
(* Aggregation Driver                                                      *)
(***************************************************************************)

\* What an upstream does when asked:
\*   throw      fetch rejects (network error)
\*   status     a response with !res.ok
\*   badjson    res.json() rejects
\*   nostreams  a JSON body whose streams is not an array
\*   ok         a JSON body with a streams array
FailKinds == {"throw", "status", "badjson", "nostreams"}
Response(kind, streams) == [kind |-> kind, streams |-> streams]

\* One call of fetchFromSource (1.9.2: the body of the loop of
\* collectStreams with fetchJSON): the list it returns, or that it throws.
fetchFromSource(ver, src, resp) ==
  LET tagged == [i \in 1..Len(resp.streams) |->
                   IF ver = "v192" THEN resp.streams[i]
                   ELSE [resp.streams[i] EXCEPT !.src = src.name]]
  IN CASE resp.kind = "ok"        -> [thrown |-> FALSE, list |-> tagged]
       [] resp.kind = "nostreams" -> [thrown |-> FALSE, list |-> <<>>]
       [] resp.kind = "status"    -> [thrown |-> ver = "v192", list |-> <<>>]
       [] resp.kind = "badjson"   -> [thrown |-> ver # "v193", list |-> <<>>]
       [] resp.kind = "throw"     -> [thrown |-> ver # "v193", list |-> <<>>]

\* Fault: a source that fails starts the list over.
pushFetchedOnly(ver, all, src, resp) ==
  IF fetchFromSource(ver, src, resp).thrown \/ resp.kind # "ok" THEN <<>>
  ELSE all \o fetchFromSource(ver, src, resp).list

\* Fault: the records of a source go in front of the earlier ones.
pushFetchedFront(ver, all, src, resp) ==
  IF fetchFromSource(ver, src, resp).thrown THEN all
  ELSE fetchFromSource(ver, src, resp).list \o all

\* try { all.push(...await fetchFromSource(src, type, id)); } catch (e) { log }
pushFetched(ver, all, src, resp) ==
  LET r == fetchFromSource(ver, src, resp)
  IN IF r.thrown THEN all ELSE all \o r.list

\* st.url || st.externalUrl || st.magnet || st.infoHash
Ident(st) ==
  IF Truthy(st.url) THEN st.url.v
  ELSE IF Truthy(st.externalUrl) THEN st.externalUrl.v
  ELSE IF Truthy(st.magnet) THEN st.magnet.v
  ELSE st.infoHash

\* ... || JSON.stringify(st): the key of the seen set.
DedupKey(st) == [id |-> Ident(st), json |-> IF Ident(st) = "" THEN st ELSE NoCand]

RECURSIVE uniqueFrom(_, _, _)
uniqueFrom(all, i, unique) ==
  IF i > Len(all) THEN unique
  ELSE IF \E j \in 1..Len(unique) : DedupKey(unique[j]) = DedupKey(all[i])
       THEN uniqueFrom(all, i + 1, unique)
       ELSE uniqueFrom(all, i + 1, Append(unique, all[i]))

\* Fault: collectStreams returns all.
keepAll(ver, all) == all

\* The tail of collectStreams: the seen/unique loop (1.9.2 returns all).
dedupe(ver, all) == IF ver = "v192" THEN all ELSE uniqueFrom(all, 1, <<>>)

(***************************************************************************)
(* The handler, between its await points                                   *)
(***************************************************************************)

tagOf(ver, st) == qualityTag(ver, combinedLabel(ver, st))

\* 1.8.2, debrid only: candidates whose url || externalUrl is http(s) first.
httpFirst(cands) ==
  LET isHttp(st) == (IF Truthy(st.url) THEN st.url ELSE st.externalUrl).kind = "http"
  IN SelectSeq(cands, isHttp) \o SelectSeq(cands, LAMBDA st : ~isHttp(st))

\* 1.9.2: candidates.filter(s => /720p|1080p|1440p|2160p|4k/i.test(combinedLabel(s)))
curatedOf(ver, cands) ==
  SelectSeq(cands, LAMBDA st :
    {"720p", "1080p", "1440p", "2160p", "4k"} \cap Keywords(combinedLabel(ver, st)) # {})

\* The list the picks are taken from.
pickList(ver, cands, debrid) ==
  IF ver = "v192" THEN curatedOf(ver, cands)
  ELSE IF ver = "v182" /\ debrid THEN httpFirst(cands)
  ELSE cands

\* The initial pick: the top-ranked candidate; 1.9.2 takes
\* best2160 || best1440 || best1080 || best720 || curated[0].
BucketTiers == <<"2160p", "1440p", "1080p", "720p">>

\* a || b || c || d || dflt
firstSome(champs, dflt) ==
  IF \A k \in 1..Len(champs) : champs[k] = NoCand THEN dflt
  ELSE champs[CHOOSE k \in 1..Len(champs) :
                /\ champs[k] # NoCand
                /\ \A j \in 1..(k - 1) : champs[j] = NoCand]

initialPick(ver, list) ==
  IF ver = "v192"
  THEN IF list = <<>> THEN NoCand
       ELSE firstSome([k \in 1..4 |-> bestOfQuality(ver, list, BucketTiers[k])], list[1])
  ELSE TopByRank(ver, list)

\* Fault: the slip of 1.6.1 (the arguments without the call), made in step A.
stepAComma(ver, cur, best1080, lp) ==
  IF /\ cur # NoCand
     /\ qualityTag(ver, combinedLabel(ver, cur)) \in {"2160p", "1440p"}
     /\ best1080 # NoCand
     /\ lp.prefer_rule # ""
  THEN best1080 ELSE cur

\* Step A: a 2160p/1440p pick gives way to a much faster 1080p champion.
stepA(ver, cur, best1080, lp) ==
  IF /\ cur # NoCand
     /\ tagOf(ver, cur) \in {"2160p", "1440p"}
     /\ best1080 # NoCand
     /\ isMuchFaster(ver, best1080, cur, lp.prefer1080_ratio, lp.prefer1080_delta, lp.prefer_rule)
  THEN best1080 ELSE cur

\* Fault: step B is open to a 2160p/1440p pick in every revision.
stepBTiersWide(ver) == {"2160p", "1440p", "1080p"}

\* Fault: step B does not look at the tier of the pick.
stepBTiersAny(ver) == {"2160p", "1440p", "1080p", "720p", "480p", "CAM", "SD", "null"}

\* The tiers whose pick step B may replace.
stepBTiers(ver) == IF ver = "v192" THEN {"2160p", "1440p", "1080p"} ELSE {"1080p"}

\* The test of step B.  1.6.1 wrote the arguments without the call, a comma
\* expression whose value is its last operand, localPref.prefer_rule.
stepBTest(ver, best720, cur, lp) ==
  IF ver = "v161" THEN lp.prefer_rule # ""
  ELSE isMuchFaster(ver, best720, cur, lp.prefer720_ratio, lp.prefer720_delta, lp.prefer_rule)

\* Step B: a 1080p pick gives way to a much faster 720p champion.
stepB(ver, cur, best720, lp) ==
  IF /\ cur # NoCand
     /\ tagOf(ver, cur) \in stepBTiers(ver)
     /\ best720 # NoCand
     /\ stepBTest(ver, best720, cur, lp)
  THEN best720 ELSE cur

\* From the candidates to the final pick: everything the handler does
\* between collectStreams and getDisplayLabel.
picks(ver, list, lp, initial, best1080, best720, afterA) ==
  [thrown   |-> \E i \in 1..Len(list) : extractSeedersThrows(ver, list[i]),
   list     |-> list,
   lp       |-> lp,
   best1080 |-> best1080,
   best720  |-> best720,
   initial  |-> initial,
   afterA   |-> afterA,
   final    |-> stepB(ver, afterA, best720, lp)]

downgrade(ver, list, lp, initial, best1080, best720) ==
  picks(ver, list, lp, initial, best1080, best720, stepA(ver, initial, best1080, lp))

picksOf(ver, list, lp) ==
  downgrade(ver, list, lp, initialPick(ver, list),
            bestOfQuality(ver, list, "1080p"), bestOfQuality(ver, list, "720p"))

selectPick(ver, cands, PREF, debrid) ==
  picksOf(ver, pickList(ver, cands, debrid), localPref(ver, PREF, ver # "v192" /\ debrid))

(***************************************************************************)
(* Result Assembler                                                        *)
(***************************************************************************)

\* buildMagnet: the magnet link, or NoLink for null.  A synthesized magnet
\* keeps the info hash and the display name it was built from.
buildMagnet(st) ==
  IF st.magnet.kind = "magnet" THEN st.magnet
  ELSE IF st.infoHash = "" THEN NoLink
  ELSE [kind |-> "magnet", v |-> st.infoHash,
        dn |-> IF st.title # <<>> THEN st.title
               ELSE IF st.name # <<>> THEN st.name ELSE <<"AutoStream">>]

\* (st.title || st.name || "AutoStream").replace(...) on a number throws.
buildMagnetThrows(st) ==
  st.magnet.kind # "magnet" /\ st.infoHash # "" /\ st.title # <<>> /\ st.titleNum

\* normalizeForResolver: [null, thrown, st, notWebReady].
Normalized(null, thrown, st, notWebReady) ==
  [null |-> null, thrown |-> thrown, st |-> st, notWebReady |-> notWebReady]

\* a || b
Or(a, b) == IF Truthy(a) THEN a ELSE b

\* 1.6.1-1.7.1: the magnet first; never null.
preferMagnet(st, m) ==
  Normalized(FALSE, buildMagnetThrows(st),
             [st EXCEPT !.url = Or(m, Or(st.url, st.externalUrl)), !.magnet = Or(m, st.magnet)],
             "false")

\* 1.8.2, no http(s) url: if (m) { out.magnet = m; out.url = m; ... } else null
withMagnet(out, m) ==
  IF Truthy(m) THEN Normalized(FALSE, FALSE, [out EXCEPT !.magnet = m, !.url = m], "true")
  ELSE Normalized(TRUE, FALSE, out, "unset")

\* 1.8.2: an http(s) url is kept; otherwise a magnet, or null.
preferHttp(out) ==
  IF out.url.kind = "http" THEN Normalized(FALSE, FALSE, out, "false")
  ELSE IF out.url.kind = "magnet" THEN withMagnet(out, out.url)
  ELSE IF buildMagnetThrows(out) THEN Normalized(FALSE, TRUE, out, "unset")
  ELSE withMagnet(out, buildMagnet(out))

\* normalizeForResolver: [null, thrown, st, notWebReady].
normalizeForResolver(ver, st) ==
  IF ver = "v182" THEN preferHttp([st EXCEPT !.url = Or(st.url, st.externalUrl)])
  ELSE preferMagnet(st, buildMagnet(st))

\* The versions that hand the raw record on and only tidy the title.
PassThrough == {"v150", "v193"}

\* The human label of the title: 1.5.0, 1.6.1 and 1.7.0 print the tag itself.
titleTag(ver, tag) == IF ver \in {"v150", "v161", "v170"} THEN tag ELSE displayTag(tag)

\* An emitted entry: the record with title, name and behaviorHints replaced.
Entry(st, title, bingeGroup, notWebReady) ==
  [title |-> title, titleNum |-> FALSE, name |-> <<"AutoStream">>,
   description |-> st.description, seeders |-> st.seeders, seeds |-> st.seeds,
   url |-> st.url, externalUrl |-> st.externalUrl, magnet |-> st.magnet,
   infoHash |-> st.infoHash, src |-> st.src,
   bingeGroup |-> bingeGroup, notWebReady |-> notWebReady]

\* 1.9.2 returns the raw record.
RawEntry(st) ==
  [title |-> st.title, titleNum |-> st.titleNum, name |-> st.name,
   description |-> st.description, seeders |-> st.seeders, seeds |-> st.seeds,
   url |-> st.url, externalUrl |-> st.externalUrl, magnet |-> st.magnet,
   infoHash |-> st.infoHash, src |-> st.src,
   bingeGroup |-> <<>>, notWebReady |-> "unset"]

\* makeCleanWithQ: [null, thrown, obj, qScore, rank, st]; st is the
\* candidate the entry was built from.
Pack(ver, st, qTag, n, niceName, bingeGroup) ==
  [null   |-> n.null,
   thrown |-> n.thrown,
   obj    |-> Entry(n.st, niceName \o <<"--", titleTag(ver, qTag)>>, bingeGroup, n.notWebReady),
   qScore |-> qualityScoreFromTag(qTag),
   rank   |-> rankStream(ver, st),
   st     |-> st]

\* Fault: the candidate goes through normalizeForResolver in every revision.
makeCleanNormalized(ver, st, niceName, bingeGroup) ==
  Pack(ver, st, tagOf(ver, st), normalizeForResolver("v171", st), niceName, bingeGroup)

makeCleanWithQ(ver, st, niceName, bingeGroup) ==
  Pack(ver, st, tagOf(ver, st),
       IF ver \in PassThrough THEN Normalized(FALSE, FALSE, st, "unset")
       ELSE normalizeForResolver(ver, st),
       niceName, bingeGroup)

\* Fault: keyA && keyB && keyA !== keyB.
distinctRefStrict(curated, best1080) ==
  /\ curated.url.v # "" \/ curated.externalUrl.v # "" \/ curated.magnet.v # "" \/ curated.infoHash # ""
  /\ best1080.url.v # "" \/ best1080.externalUrl.v # "" \/ best1080.magnet.v # "" \/ best1080.infoHash # ""
  /\ <<curated.url, curated.externalUrl, curated.magnet, curated.infoHash>>
       # <<best1080.url, best1080.externalUrl, best1080.magnet, best1080.infoHash>>

\* keyA / keyB of the handler: is best1080 another stream than the pick?
distinctRef(curated, best1080) ==
  Ident(curated) = "" \/ Ident(best1080) = "" \/ Ident(curated) # Ident(best1080)

\* Is the 1080p champion packed as a second entry?
wantsSecond(ver, curated, best1080) ==
  /\ ~is1080pLabel(ver, combinedLabel(ver, curated))
  /\ best1080 # NoCand
  /\ distinctRef(curated, best1080)

\* Fault: the packs are returned in the order they were pushed.
noSort(out) == out

\* out.sort((a, b) => b.qScore - a.qScore || b.rank - a.rank), out of at most
\* two packs; the sort is stable.
sortOut(out) ==
  IF Len(out) = 2 /\ (\/ out[2].qScore > out[1].qScore
                      \/ out[2].qScore = out[1].qScore /\ out[2].rank > out[1].rank)
  THEN <<out[2], out[1]>> ELSE out

\* Fault: the pack is pushed twice.
pushPackTwice(out, pack) == IF pack.null THEN out ELSE Append(Append(out, pack), pack)

\* Fault: a pack without any reference field is left out.
pushPackPlayable(out, pack) ==
  IF pack.null \/ (pack.st.url.kind = "none" /\ pack.st.externalUrl.kind = "none"
                     /\ pack.st.magnet.kind = "none" /\ pack.st.infoHash = "")
  THEN out ELSE Append(out, pack)

\* From the final pick to the sorted packs: everything after getDisplayLabel.
\* if (pack) out.push(pack)
pushPack(out, pack) == IF pack.null THEN out ELSE Append(out, pack)

packsOf(p1, p2, two) ==
  [thrown |-> p1.thrown \/ (two /\ p2.thrown),
   out    |-> sortOut(IF two THEN pushPack(pushPack(<<>>, p1), p2) ELSE pushPack(<<>>, p1))]

assemble(ver, curated, best1080, niceName, bingeGroup) ==
  packsOf(makeCleanWithQ(ver, curated, niceName, bingeGroup),
          makeCleanWithQ(ver, best1080, niceName, bingeGroup),
          wantsSecond(ver, curated, best1080))

\* getDisplayLabel: the looked-up name, or the id when the lookup fails.
getDisplayLabel(ok, id) == IF ok THEN <<"Movie">> ELSE id

\* Fault: no catch around the handler.
rethrow(outcome) == outcome

\* try { ... } catch (err) { return { streams: [] } } around the handler:
\* what the caller gets from an outcome [thrown, streams].
tryCatch(outcome) ==
  IF outcome.thrown THEN [thrown |-> FALSE, streams |-> <<>>] ELSE outcome

(***************************************************************************)
(* One request                                                             *)
(***************************************************************************)

\* The media identifier of the request, as text.
id == <<"tt1">>

\* The records the upstreams of the model answer with: a 2160p record with an
\* http url; a record with the same url, whose title is a number, with the
\* tier in its description and an info hash; and a 1080p record with no
\* reference field at all.
Catalog ==
  {Cand(<<"2160p", "WEBRip">>, 5, Http("u1"), ""),
   [Cand(<<"720">>, 50, Http("u1"), "h1") EXCEPT !.titleNum = TRUE, !.description = <<"1080p">>],
   Cand(<<"1080p">>, 400, NoLink, "")}

SeqsUpTo(S, n) == UNION {[1..k -> S] : k \in 0..n}

Responses ==
  {Response(k, <<>>) : k \in FailKinds} \cup
  {Response("ok", streams) : streams \in SeqsUpTo(Catalog, MaxStreams)}

\* The picks before any have been made.
NoSel ==
  [thrown |-> FALSE, list |-> <<>>, lp |-> DefaultPREF, best1080 |-> NoCand,
   best720 |-> NoCand, initial |-> NoCand, afterA |-> NoCand, final |-> NoCand]

VARIABLES
  ver,          \* the revision of index.js that runs
  cfg,          \* the per-request configuration (extra.cfg / config)
  PREF,         \* the process-wide preference configuration
  pc,           \* where the handler is: start, fetch, collected, title, done
  phase,        \* which list collectStreams walks: primary or fallback
  usedSources,  \* const usedSources
  idx,          \* the position of the for loop of collectStreams
  all,          \* const all of collectStreams
  asked,        \* how many upstream calls each list has had so far
  last,         \* the latest upstream call: source, list, outcome
  candidates,   \* let candidates
  primary,      \* what the first collectStreams returned, once it has
  sel,          \* the picks: initial, after step A, final, and the champions
  niceName,     \* const niceName
  out,          \* the sorted packs of the handler
  result,       \* what the caller got: [returned, thrown, streams]
  other,        \* the locals of a second request of the process, while it is suspended
  startup,      \* PREF as it was loaded at startup
  ret           \* what a helper called on its own returned: [fn, val]

vars == <<ver, cfg, PREF, pc, phase, usedSources, idx, all, asked, last, candidates,
          primary, sel, niceName, out, result, other, startup, ret>>

\* One upstream call: the source, the list it is in, what it did, and how many
\* records it added to all.
Call(src, ph, kind, got) == [src |-> src, phase |-> ph, kind |-> kind, got |-> got]
NoCall == Call(NoSrc, "", "", 0)

Pending == [returned |-> FALSE, thrown |-> FALSE, streams |-> <<>>]

\* The handler ends: the caller gets the list, unless the outcome is a throw.
Returned(outcome) ==
  [returned |-> ~outcome.thrown, thrown |-> outcome.thrown, streams |-> outcome.streams]

objsOf(packs) == [i \in 1..Len(packs) |-> packs[i].obj]

currentList == IF phase = "primary" THEN usedSources ELSE FALLBACK_SOURCES

\* The locals of a request that has not started.
Fresh(c) ==
  [cfg |-> c, pc |-> "start", phase |-> "primary", usedSources |-> <<>>, idx |-> 1,
   all |-> <<>>, asked |-> [primary |-> 0, fallback |-> 0], last |-> NoCall,
   candidates |-> <<>>, primary |-> [done |-> FALSE, cands |-> <<>>], sel |-> NoSel,
   niceName |-> <<>>, out |-> <<>>, result |-> Pending]

\* No second request.
Idle == [Fresh("none") EXCEPT !.pc = "done"]

\* No helper has been called on its own.
NoRet == [fn |-> "", val |-> <<>>]

\* The running request leaves the second one, and the startup value, alone
\* (and there is no call of a helper on its own).
KeepPeer == UNCHANGED <<other, startup, ret>>

Init ==
  /\ ver \in Versions
  /\ cfg \in CfgKinds
  /\ PREF = DefaultPREF
  /\ pc = "start"
  /\ phase = "primary"
  /\ usedSources = <<>>
  /\ idx = 1
  /\ all = <<>>
  /\ asked = [primary |-> 0, fallback |-> 0]
  /\ last = NoCall
  /\ candidates = <<>>
  /\ primary = [done |-> FALSE, cands |-> <<>>]
  /\ sel = NoSel
  /\ niceName = <<>>
  /\ out = <<>>
  /\ result = Pending
  /\ other = Idle
  /\ startup = PREF
  /\ ret = NoRet

\* Fault: candidates.length <= 1.
needsFallbackFew(cands) == Len(cands) <= 1

\* if (candidates.length === 0): the test before the fallback list and before
\* the empty return.
needsFallback(cands) == cands = <<>>

\* collectStreams(list, ...) is entered: with no source it returns [] at once.
EnterCollect(list, ph) ==
  /\ phase' = ph
  /\ idx' = 1
  /\ all' = <<>>
  /\ candidates' = <<>>
  /\ pc' = IF list = <<>> THEN "collected" ELSE "fetch"
  /\ primary' = IF list = <<>> /\ ph = "primary" THEN [done |-> TRUE, cands |-> <<>>]
                ELSE primary

\* const usedSources = resolveSources(extra); collectStreams(usedSources, ...)
Start ==
  /\ pc = "start"
  /\ usedSources' = resolveSources(ver, cfg)
  /\ EnterCollect(resolveSources(ver, cfg), "primary")
  /\ UNCHANGED <<ver, cfg, PREF, asked, last, sel, niceName, out, result>>
  /\ KeepPeer

\* One upstream answers: the body of the for loop of collectStreams and, after
\* the last source, its seen/unique loop.
Fetch ==
  /\ pc = "fetch"
  /\ \E resp \in Responses :
       /\ all' = pushFetched(ver, all, currentList[idx], resp)
       /\ last' = Call(currentList[idx].name, phase, resp.kind, Len(all') - Len(all))
  /\ asked' = [asked EXCEPT ![phase] = @ + 1]
  /\ idx' = idx + 1
  /\ pc' = IF idx = Len(currentList) THEN "collected" ELSE "fetch"
  /\ candidates' = IF idx = Len(currentList) THEN dedupe(ver, all') ELSE candidates
  /\ primary' = IF idx = Len(currentList) /\ phase = "primary"
                THEN [done |-> TRUE, cands |-> candidates'] ELSE primary
  /\ UNCHANGED <<ver, cfg, PREF, phase, usedSources, sel, niceName, out, result>>
  /\ KeepPeer

\* if (candidates.length === 0) candidates = await collectStreams(FALLBACK_SOURCES, ...)
GoFallback ==
  /\ pc = "collected"
  /\ phase = "primary"
  /\ needsFallback(candidates)
  /\ EnterCollect(FALLBACK_SOURCES, "fallback")
  /\ UNCHANGED <<ver, cfg, PREF, usedSources, asked, last, sel, niceName, out, result>>
  /\ KeepPeer

\* if (candidates.length === 0) return { streams: [] }
ReturnEmpty ==
  /\ pc = "collected"
  /\ phase = "fallback"
  /\ needsFallback(candidates)
  /\ pc' = "done"
  /\ result' = Returned(tryCatch([thrown |-> FALSE, streams |-> <<>>]))
  /\ UNCHANGED <<ver, cfg, PREF, phase, usedSources, idx, all, asked, last, candidates,
                 primary, sel, niceName, out>>
  /\ KeepPeer

\* 1.9.2 has no assembler: return { streams: final ? [final] : [] }
rawPacks(final) ==
  IF final = NoCand THEN <<>>
  ELSE <<[null |-> FALSE, thrown |-> FALSE, obj |-> RawEntry(final),
          qScore |-> 0, rank |-> 0, st |-> final]>>

\* The picks, up to the await of getDisplayLabel; 1.9.2 returns here.
Select ==
  /\ pc = "collected"
  /\ ~needsFallback(candidates)
  /\ sel' = selectPick(ver, candidates, PREF, debridOK(ver, usedSources, cfg))
  /\ pc' = IF sel'.thrown \/ ver = "v192" THEN "done" ELSE "title"
  /\ out' = IF ~sel'.thrown /\ ver = "v192" THEN rawPacks(sel'.final) ELSE out
  /\ result' = IF pc' = "done"
               THEN Returned(tryCatch([thrown |-> sel'.thrown, streams |-> objsOf(out')]))
               ELSE result
  /\ PREF' = prefAfter(ver, PREF, debridOK(ver, usedSources, cfg))
  /\ UNCHANGED <<ver, cfg, phase, usedSources, idx, all, asked, last, candidates,
                 primary, niceName>>
  /\ KeepPeer

\* getDisplayLabel answers; the packs are built, sorted and returned.
TitleReturn ==
  /\ pc = "title"
  /\ \E ok \in BOOLEAN : niceName' = getDisplayLabel(ok, id)
  /\ \E a \in {assemble(ver, sel.final, sel.best1080, niceName', id)} :
       /\ out' = IF a.thrown THEN <<>> ELSE a.out
       /\ result' = Returned(tryCatch([thrown |-> a.thrown, streams |-> objsOf(out')]))
  /\ pc' = "done"
  /\ UNCHANGED <<ver, cfg, PREF, phase, usedSources, idx, all, asked, last, candidates,
                 primary, sel>>
  /\ KeepPeer

Next == Start \/ Fetch \/ GoFallback \/ ReturnEmpty \/ Select \/ TitleReturn

Spec == Init /\ [][Next]_vars

(***************************************************************************)
(* The policy and the assembler on their own: the handler from the point   *)
(* where collectStreams has returned a non-empty candidate list.           *)
(***************************************************************************)

\* Greatest number of candidates the first source answers with.
MaxCands == 3

\* A candidate whose title reads "<tier> <n> seeds" and whose seeders field is
\* n: every revision reads the same seed count from it.
Seeded(tier, n, word, url) == Cand(<<tier, word, "seeds">>, n, url, "")

P2160s1    == Seeded("2160p", 1, "1", Http("a"))
P1080s1    == Seeded("1080p", 1, "1", NoLink)
P720s10000 == Seeded("720p", 10000, "10000", Http("c"))
P2160s5    == Seeded("2160p", 5, "5", Http("d"))
P1080s400  == Seeded("1080p", 400, "400", Http("e"))
P720s1     == Seeded("720p", 1, "1", Http("i"))
P720s1500  == Seeded("720p", 1500, "1500", Http("j"))
\* No seed count and no reference field of any kind.
P1440bare  == Cand(<<"1440p">>, NoNum, NoLink, "")
\* A numeric title, an info hash, and the tier in the description.
PNumTitle  ==
  [Cand(<<"720">>, 50, NoLink, "h") EXCEPT !.titleNum = TRUE, !.description = <<"1080p">>]
\* No tier keyword; a magnet link.
PSdMagnet  ==
  [Cand(<<"WEBRip", "20", "seeds">>, 20, NoLink, "") EXCEPT !.magnet = Magnet("m")]

PolicyPool ==
  {P2160s1, P1080s1, P720s10000, P2160s5, P1080s400, P720s1, P720s1500, P1440bare,
   PNumTitle, PSdMagnet}

\* The answers of the first source: up to MaxCands different records.
PolicyLists ==
  {l \in SeqsUpTo(PolicyPool, MaxCands) :
     /\ Len(l) >= 1
     /\ \A i, j \in 1..Len(l) : i # j => l[i] # l[j]}

\* The handler after collectStreams(usedSources, ...) has returned: the first
\* source answered with the list, every other one with no streams array.
InitPolicy ==
  /\ ver \in Versions
  /\ cfg \in {"none", "debridKey"}
  /\ PREF \in PrefConfigs
  /\ pc = "collected"
  /\ phase = "primary"
  /\ usedSources = resolveSources(ver, cfg)
  /\ idx = Len(usedSources) + 1
  /\ \E l \in PolicyLists :
       all = fetchFromSource(ver, usedSources[1], Response("ok", l)).list
  /\ candidates = dedupe(ver, all)
  /\ asked = [primary |-> Len(usedSources), fallback |-> 0]
  /\ last = IF Len(usedSources) = 1
            THEN Call(usedSources[1].name, "primary", "ok", Len(all))
            ELSE Call(usedSources[Len(usedSources)].name, "primary", "nostreams", 0)
  /\ primary = [done |-> TRUE, cands |-> candidates]
  /\ sel = NoSel
  /\ niceName = <<>>
  /\ out = <<>>
  /\ result = Pending
  /\ other = Idle
  /\ startup = PREF
  /\ ret = NoRet

NextPolicy == Select \/ TitleReturn

SpecPolicy == InitPolicy /\ [][NextPolicy]_vars


(***************************************************************************)
(* Two requests in one process.  The handler is an async function: between *)
(* two of its steps (at an await) the event loop may run a step of another *)
(* request.  The running request has the variables; the suspended one is   *)
(* kept in other.  PREF and the source lists belong to the process.        *)
(***************************************************************************)

\* The locals of the running request.
Me ==
  [cfg |-> cfg, pc |-> pc, phase |-> phase, usedSources |-> usedSources, idx |-> idx,
   all |-> all, asked |-> asked, last |-> last, candidates |-> candidates,
   primary |-> primary, sel |-> sel, niceName |-> niceName, out |-> out,
   result |-> result]

\* The running request is suspended at its await and the other one resumes.
Yield ==
  /\ other.pc # "done"
  /\ other' = Me
  /\ cfg' = other.cfg
  /\ pc' = other.pc
  /\ phase' = other.phase
  /\ usedSources' = other.usedSources
  /\ idx' = other.idx
  /\ all' = other.all
  /\ asked' = other.asked
  /\ last' = other.last
  /\ candidates' = other.candidates
  /\ primary' = other.primary
  /\ sel' = other.sel
  /\ niceName' = other.niceName
  /\ out' = other.out
  /\ result' = other.result
  /\ UNCHANGED <<ver, PREF, startup, ret>>

\* config.json lowers the thresholds (ratio 1.0, delta 1), so that the debrid
\* override decides whether step A fires.
PairPREF ==
  [DefaultPREF EXCEPT !.prefer1080_ratio = 10, !.prefer1080_delta = 1,
                      !.prefer720_ratio = 10, !.prefer720_delta = 1]

\* One request with a custom source that is no debrid provider, and one with
\* a debrid provider and its API key; either may run first.
InitPair ==
  /\ ver \in Versions
  /\ PREF = PairPREF
  /\ startup = PREF
  /\ cfg = "plain"
  /\ other = Fresh("debridKey")
  /\ pc = "start"
  /\ phase = "primary"
  /\ usedSources = <<>>
  /\ idx = 1
  /\ all = <<>>
  /\ asked = [primary |-> 0, fallback |-> 0]
  /\ last = NoCall
  /\ candidates = <<>>
  /\ primary = [done |-> FALSE, cands |-> <<>>]
  /\ sel = NoSel
  /\ niceName = <<>>
  /\ out = <<>>
  /\ result = Pending
  /\ ret = NoRet

NextPair == Next \/ Yield

SpecPair == InitPair /\ [][NextPair]_vars

(***************************************************************************)
(* The helpers called on their own.  pc names the helper that is about to  *)
(* be called, candidates holds the records it is called on, PREF the       *)
(* thresholds and the rule; ret is what the call returned.                 *)
(***************************************************************************)

\* Greatest number of words in a label made of tier words.
MaxWords == 2

\* Words that carry a tier keyword, in either case, and one that carries none.
TierWords == {"2160p", "4K", "UHD", "1440p", "2k", "1080p", "720p", "480p", "CAM", "proper"}

\* The labels qualityTag is called on: none, up to MaxWords tier words, and
\* the label of the documentation.
TagLabels ==
  SeqsUpTo(TierWords, MaxWords) \cup {<<"2160p", "proper", "1080p", "repack">>}

\* The number words a label embeds as a seed count.
CountWords == {"0", "5", "20", "400", "10000", "1000000"}

\* The labels extractSeeders is called on: the documented forms "N seeds",
\* "N seeders", "[N seeds]" and "seeds: N", alone and after a tier word, and
\* labels with no seed count.
SeedLabels ==
  {<<w, u>> : w \in CountWords, u \in {"seeds", "Seeds", "seeders"}}
    \cup {<<"1080p", w, "seeds">> : w \in CountWords}
    \cup {<<"[5", "seeds]">>, <<"[20", "seeds]">>}
    \cup {<<"seeds:", w>> : w \in CountWords}
    \cup {<<>>, <<"1080p">>, <<"20">>, <<"proper", "repack">>}

\* A record with a label and the two numeric seed fields.
Labelled(label, seeders, seeds, titleNum) ==
  [Cand(label, seeders, NoLink, "") EXCEPT !.seeds = seeds, !.titleNum = titleNum]

\* The seed counts of the records isMuchFaster is called on.
SpeedWords == {"0", "1", "5", "20", "50", "400", "1500"}

\* The thresholds and rules isMuchFaster is called with.
FnPrefs ==
  PrefConfigs \cup
    {[DefaultPREF EXCEPT !.prefer_rule = "ratio_or_delta",
                         !.prefer1080_ratio = 10, !.prefer1080_delta = 1,
                         !.prefer720_ratio = 10, !.prefer720_delta = 1]}

\* The words that earn a preference bonus, and how many of them a label has.
BonusWords ==
  <<"webdl", "webrip", "BluRay", "remux", "rd", "ad", "pm", "alldebrid",
    "premiumize", "real-debrid", "hevc">>
BonusLens == {0, 3, 9, 11}

\* The records rankStream is called on: a tier word (or a word with no tier),
\* the first words of BonusWords, and a seed count.
RankWords == {"2160p", "1440p", "1080p", "720p", "480p", "CAM", "proper"}
RankPool ==
  {Cand(<<t>> \o SubSeq(BonusWords, 1, n), k, NoLink, "") :
     t \in RankWords, n \in BonusLens, k \in {0, 20, 10000}}

\* The arguments of the call that pc names.
FnArgs(fn) ==
  CASE fn = "qualityTag" ->
         {<<Labelled(l, NoNum, NoNum, FALSE)>> : l \in TagLabels}
    [] fn = "extractSeeders" ->
         {<<Labelled(l, n, m, FALSE)>> : l \in SeedLabels, n \in {NoNum, 50}, m \in {NoNum, 1}}
           \cup {<<Labelled(<<"20">>, NoNum, NoNum, TRUE)>>}
    [] fn = "isMuchFaster" ->
         {<<Cand(<<a, "seeds">>, NumVal(a), NoLink, ""),
            Cand(<<b, "seeds">>, NumVal(b), NoLink, "")>> : a \in SpeedWords, b \in SpeedWords}
    [] fn = "rankStream" ->
         {<<a, b>> : a \in RankPool, b \in RankPool}

Helpers == {"qualityTag", "extractSeeders", "isMuchFaster", "rankStream"}

\* 1.9.2 has no rankStream.
InitFn ==
  /\ ver \in Versions
  /\ pc \in (IF ver = "v192" THEN Helpers \ {"rankStream"} ELSE Helpers)
  /\ candidates \in FnArgs(pc)
  /\ PREF \in (IF pc = "isMuchFaster" THEN FnPrefs ELSE {DefaultPREF})
  /\ cfg = "none"
  /\ phase = "primary"
  /\ usedSources = <<>>
  /\ idx = 1
  /\ all = <<>>
  /\ asked = [primary |-> 0, fallback |-> 0]
  /\ last = NoCall
  /\ primary = [done |-> FALSE, cands |-> <<>>]
  /\ sel = NoSel
  /\ niceName = <<>>
  /\ out = <<>>
  /\ result = Pending
  /\ other = Idle
  /\ startup = PREF
  /\ ret = NoRet

\* The helper returns val; it assigns to nothing but its own locals.
Called(fn, val) ==
  /\ pc' = "done"
  /\ ret' = [fn |-> fn, val |-> val]
  /\ UNCHANGED <<ver, cfg, PREF, phase, usedSources, idx, all, asked, last, candidates,
                 primary, sel, niceName, out, result, other, startup>>

\* qualityTag(label), the label being the combined label of the record.
CallQualityTag ==
  /\ pc = "qualityTag"
  /\ Called("qualityTag", qualityTag(ver, combinedLabel(ver, candidates[1])))

\* extractSeeders(st): the value, or that the call threw.
CallExtractSeeders ==
  /\ pc = "extractSeeders"
  /\ Called("extractSeeders",
            [thrown |-> extractSeedersThrows(ver, candidates[1]),
             v      |-> extractSeeders(ver, candidates[1])])

\* isMuchFaster(lower, higher, ratioNeed, deltaNeed, rule) with the thresholds
\* of step A or of step B.
CallIsMuchFaster ==
  /\ pc = "isMuchFaster"
  /\ \E t \in {<<PREF.prefer1080_ratio, PREF.prefer1080_delta>>,
               <<PREF.prefer720_ratio, PREF.prefer720_delta>>} :
       Called("isMuchFaster",
              [ratioNeed |-> t[1], deltaNeed |-> t[2], rule |-> PREF.prefer_rule,
               v |-> isMuchFaster(ver, candidates[1], candidates[2], t[1], t[2],
                                  PREF.prefer_rule)])

\* rankStream(a) and rankStream(b), as the comparator of the sort calls them.
CallRankStream ==
  /\ pc = "rankStream"
  /\ Called("rankStream",
            <<rankStream(ver, candidates[1]), rankStream(ver, candidates[2])>>)

NextFn == CallQualityTag \/ CallExtractSeeders \/ CallIsMuchFaster \/ CallRankStream

SpecFn == InitFn /\ [][NextFn]_vars

(***************************************************************************)
(* The handler from the seen/unique loop of collectStreams on, as in       *)
(* SpecPolicy, on a pool with a record of no seed count in each of the     *)
(* tiers the steps compare, records without any reference field, and two   *)
(* records of different tiers with one url.                                *)
(***************************************************************************)

\* No seed count in a field or in the text.
P1080bare == Cand(<<"1080p">>, NoNum, Http("k"), "")
P720bare  == Cand(<<"720p">>, NoNum, Http("l"), "")
\* The url of P2160s1.
P1080urlA == Seeded("1080p", 20, "20", Http("a"))

StepPool ==
  {P2160s1, P2160s5, P1440bare, P1080bare, P1080s1, P1080s400, P720bare, P720s10000,
   P1080urlA}

StepLists ==
  {l \in SeqsUpTo(StepPool, MaxCands) :
     /\ Len(l) >= 1
     /\ \A i, j \in 1..Len(l) : i # j => l[i] # l[j]}

InitSteps ==
  /\ ver \in Versions
  /\ cfg \in {"none", "debridKey"}
  /\ PREF \in FnPrefs
  /\ pc = "collected"
  /\ phase = "primary"
  /\ usedSources = resolveSources(ver, cfg)
  /\ idx = Len(usedSources) + 1
  /\ \E l \in StepLists :
       all = fetchFromSource(ver, usedSources[1], Response("ok", l)).list
  /\ candidates = dedupe(ver, all)
  /\ asked = [primary |-> Len(usedSources), fallback |-> 0]
  /\ last = IF Len(usedSources) = 1
            THEN Call(usedSources[1].name, "primary", "ok", Len(all))
            ELSE Call(usedSources[Len(usedSources)].name, "primary", "nostreams", 0)
  /\ primary = [done |-> TRUE, cands |-> candidates]
  /\ sel = NoSel
  /\ niceName = <<>>
  /\ out = <<>>
  /\ result = Pending
  /\ other = Idle
  /\ startup = PREF
  /\ ret = NoRet

SpecSteps == InitSteps /\ [][NextPolicy]_vars

(***************************************************************************)
(* Properties                                                              *)
(***************************************************************************)

\* The picks have been made, and making them did not throw.
Picked == sel # NoSel /\ ~sel.thrown

\* Building the packs threw (the handler has got past getDisplayLabel).
AssembleRaised ==
  /\ pc = "done"
  /\ Picked
  /\ ver # "v192"
  /\ assemble(ver, sel.final, sel.best1080, niceName, id).thrown

\* C1: the handler never hands a failure to its caller: whatever the upstreams
\* and the title lookup do, it ends with a result list; an exception raised
\* anywhere in the pipeline gives the empty list; and no candidate from any
\* primary or fallback source gives the empty list without a throw.
C1_NeverPropagates ==
  /\ ~result.thrown
  /\ pc = "done" => result.returned
  /\ (pc = "done" /\ (sel.thrown \/ AssembleRaised)) => result.streams = <<>>
  /\ (pc = "done" /\ candidates = <<>>) => (result.returned /\ result.streams = <<>>)

\* An exception was raised in the pipeline and the caller got the empty list.
C1_Witness ==
  /\ pc = "done"
  /\ sel.thrown \/ AssembleRaised
  /\ result.returned
  /\ result.streams = <<>>

\* C2: the result list has 0, 1 or 2 entries, never more.
C2_AtMostTwo == Len(result.streams) <= 2 /\ Len(out) <= 2

\* A request answered with two entries.
C2_Witness == pc = "done" /\ result.returned /\ Len(result.streams) = 2

\* C3: in collectStreams a source that fails (network error, non-success
\* status, a body that is not JSON or has no streams array) adds no candidate,
\* keeps what the earlier sources gave, and the loop goes on to the next
\* source: when collectStreams returns, every source of its list was asked.
C3_FailureSkipped ==
  [][/\ (pc = "fetch" /\ asked' # asked /\ last'.kind \in FailKinds)
          => /\ all' = all
             /\ last'.got = 0
             /\ idx' = idx + 1
             /\ pc' = (IF idx < Len(currentList) THEN "fetch" ELSE "collected")
             /\ result' = result
     /\ (pc = "fetch" /\ pc' = "collected")
          => asked'[phase] = Len(currentList)]_vars

\* The first source gave candidates, the second failed, and the candidates of
\* the first are what collectStreams returned.
C3_Witness ==
  /\ pc = "collected"
  /\ asked.primary = 2
  /\ last.kind \in {"throw", "status", "badjson"}
  /\ all # <<>>
  /\ candidates # <<>>

\* C4: the fallback list is asked if and only if the de-duplicated candidates
\* of the primary sources are none, and only after every primary source was
\* asked; with a primary candidate, no fallback source is ever asked.
C4_FallbackIffPrimaryEmpty ==
  /\ (phase = "fallback" \/ asked.fallback > 0)
       => (primary.done /\ primary.cands = <<>> /\ asked.primary = Len(usedSources))
  /\ (primary.done /\ primary.cands # <<>>) => (phase = "primary" /\ asked.fallback = 0)
  /\ (pc \in {"title", "done"} /\ primary.cands = <<>>)
       => (phase = "fallback" /\ asked.fallback = Len(FALLBACK_SOURCES))

\* The primary sources gave nothing, the fallback list was asked and its
\* candidates were returned.
C4_Witness ==
  /\ pc = "done"
  /\ primary.done /\ primary.cands = <<>>
  /\ asked.primary = Len(usedSources)
  /\ asked.fallback = Len(FALLBACK_SOURCES)
  /\ result.streams # <<>>

\* The tier of a pick, as the running revision reads it.
tierOf(st) == qualityTag(ver, combinedLabel(ver, st))

\* The records collected, without the source they came from.
CandSet == {[candidates[i] EXCEPT !.src = NoSrc] : i \in 1..Len(candidates)}

\* A 2160p/1440p pick ends as 720p only through the 1080p champion, and a
\* pick that is still 2160p/1440p after step 1 is the final pick.
LevelKept ==
  /\ (tierOf(sel.initial) \in {"2160p", "1440p"} /\ tierOf(sel.final) = "720p")
       => (sel.afterA = sel.best1080 /\ tierOf(sel.afterA) = "1080p")
  /\ tierOf(sel.afterA) \in {"2160p", "1440p"} => sel.final = sel.afterA

\* C5, as amended: in every revision but 1.9.2 the downgrade never skips a
\* level: a 2160p/1440p pick ends as 720p only if step 1 first replaced it
\* with the 1080p champion, and a pick left at 2160p/1440p by step 1 is final.
C5_NoLevelSkip == (Picked /\ ver # "v192") => LevelKept

\* 2160p, then the 1080p champion, then the 720p champion: both hops taken.
C5_Witness ==
  /\ Picked /\ ver # "v192"
  /\ tierOf(sel.initial) = "2160p"
  /\ tierOf(sel.afterA) = "1080p"
  /\ tierOf(sel.final) = "720p"

\* C5, as stated: in every revision of the handler the downgrade never skips
\* a level.
C5_EveryVersion == Picked => LevelKept

\* C6: the policy never upgrades: the quality score of the tier of the final
\* pick is at most that of the tier of the initial pick, for every candidate
\* list and every threshold and rule configuration.
C6_NeverUpgrade ==
  Picked => qualityScoreFromTag(tierOf(sel.final)) <= qualityScoreFromTag(tierOf(sel.initial))

\* A downgrade under the "ratio_or_delta" rule.
C6_Witness ==
  /\ Picked
  /\ PREF.prefer_rule = "ratio_or_delta"
  /\ qualityScoreFromTag(tierOf(sel.final)) < qualityScoreFromTag(tierOf(sel.initial))

\* Debrid off, the default thresholds and rule, and the three candidates
\* 2160p with 1 seed, 1080p with 1 seed, 720p with 10000 seeds.
C7_Case ==
  /\ Picked
  /\ ~debridOK(ver, usedSources, cfg)
  /\ PREF = DefaultPREF /\ sel.lp = DefaultPREF
  /\ Len(candidates) = 3
  /\ CandSet = {P2160s1, P1080s1, P720s10000}

\* C7, as amended: with debrid off, the default thresholds (2.0, 500, 3.0,
\* 1000, ratio_and_delta) and candidates 2160p with 1 seed, 1080p with 1 seed
\* and 720p with 10000 seeds, the pick is the 2160p candidate after step 1 and
\* after step 2 (every revision but 1.9.2).
C7_Stays2160 ==
  (C7_Case /\ ver # "v192")
    => /\ tierOf(sel.initial) = "2160p"
       /\ tierOf(sel.afterA) = "2160p"
       /\ tierOf(sel.final) = "2160p"
       /\ [sel.final EXCEPT !.src = NoSrc] = P2160s1

\* The case of C7 in the revision the claim cites.
C7_Witness == C7_Case /\ ver = "v193" /\ tierOf(sel.final) = "2160p"

\* C7, as stated: in that case the tier of the pick is 1080p after step 1 and
\* 720p after step 2.
C7_AsStated ==
  (C7_Case /\ ver = "v193") => (tierOf(sel.afterA) = "1080p" /\ tierOf(sel.final) = "720p")

\* The handler of 1.9.3 has returned; debrid off, default thresholds and rule;
\* the candidates are 2160p with 5 seeds and 1080p with 400 seeds.
C8_Case ==
  /\ pc = "done" /\ ver = "v193"
  /\ ~debridOK(ver, usedSources, cfg)
  /\ PREF = DefaultPREF
  /\ Len(candidates) = 2
  /\ CandSet = {P2160s5, P1080s400}

\* C8: end to end in that case no downgrade happens and the result is exactly
\* two entries: the 2160p candidate titled "<name> -- 4K", then the 1080p
\* candidate titled "<name> -- 1080p".
C8_TwoEntries ==
  C8_Case
    => /\ sel.final = sel.initial /\ tierOf(sel.final) = "2160p"
       /\ result.returned
       /\ Len(result.streams) = 2
       /\ result.streams[1].title = niceName \o <<"--", "4K">>
       /\ result.streams[1].url = P2160s5.url
       /\ result.streams[1].seeders = 5
       /\ result.streams[2].title = niceName \o <<"--", "1080p">>
       /\ result.streams[2].url = P1080s400.url
       /\ result.streams[2].seeders = 400

\* The case of C8 with the title looked up.
C8_Witness == C8_Case /\ niceName = <<"Movie">> /\ Len(result.streams) = 2

\* The result list holds the entry built from the final pick, with the
\* reference fields of the pick.
FinalEmitted ==
  /\ sel.final # NoCand
  /\ \E k \in 1..Len(out) :
       /\ out[k].st = sel.final
       /\ k <= Len(result.streams)
       /\ result.streams[k] = out[k].obj

\* C9, as amended: in the revisions that hand the candidate on unchanged
\* (1.5.0 and 1.9.3), whenever a candidate was collected the result list has
\* an entry for the final pick, whatever reference fields the pick has.
C9_FinalEmitted ==
  (pc = "done" /\ candidates # <<>> /\ ver \in {"v150", "v193"})
    => /\ FinalEmitted
       /\ \E k \in 1..Len(result.streams) :
            /\ result.streams[k].url = sel.final.url
            /\ result.streams[k].externalUrl = sel.final.externalUrl
            /\ result.streams[k].magnet = sel.final.magnet
            /\ result.streams[k].infoHash = sel.final.infoHash

\* A final pick with no reference field at all, emitted.
C9_Witness ==
  /\ pc = "done" /\ ver = "v193"
  /\ Picked
  /\ ~Truthy(sel.final.url) /\ ~Truthy(sel.final.externalUrl)
  /\ ~Truthy(sel.final.magnet) /\ sel.final.infoHash = ""
  /\ FinalEmitted

\* C9, as stated, for the revisions whose code it cites (1.8.2 and 1.9.3): a
\* non-empty candidate list never gives a result list without the final pick
\* (here even with the runs left aside in which building the packs threw).
C9_AsStated ==
  (pc = "done" /\ candidates # <<>> /\ ver \in {"v182", "v193"} /\ ~AssembleRaised)
    => FinalEmitted

\* The first truthy of url, externalUrl, magnet, infoHash ("" for none).
RefOf(st) ==
  IF st.url.kind # "none" THEN st.url.v
  ELSE IF st.externalUrl.kind # "none" THEN st.externalUrl.v
  ELSE IF st.magnet.kind # "none" THEN st.magnet.v
  ELSE st.infoHash

\* The final pick is not 1080p and a 1080p champion with another reference
\* (or with none to compare) exists.
SecondDue ==
  /\ tierOf(sel.final) # "1080p"
  /\ sel.best1080 # NoCand
  /\ RefOf(sel.final) = "" \/ RefOf(sel.best1080) = "" \/ RefOf(sel.final) # RefOf(sel.best1080)

\* C10 (1.9.3): a second entry is emitted if and only if the final pick is not
\* 1080p and a 1080p champion exists whose reference differs from the pick's
\* (or either has none); the second entry is always the 1080p champion.
C10_SecondaryIff ==
  (pc = "done" /\ ver = "v193" /\ Picked)
    => /\ Len(result.streams) = (IF SecondDue THEN 2 ELSE 1)
       /\ result.streams = objsOf(out)
       /\ \E k \in 1..Len(out) : out[k].st = sel.final
       /\ SecondDue => \E k \in 1..Len(out) :
                         /\ out[k].st = sel.best1080
                         /\ out[3 - k].st = sel.final

\* A second entry for a 1080p champion that has no reference field.
C10_Witness ==
  /\ pc = "done" /\ ver = "v193" /\ Picked
  /\ RefOf(sel.best1080) = ""
  /\ SecondDue
  /\ Len(result.streams) = 2

\* The quality score of the tier of a candidate, and its rank, read from the
\* candidate itself.
scoreOf(st) == qualityScoreFromTag(tierOf(st))
rankOf(st) == rankStream(ver, st)

\* Entry k of the answer does not come after an entry it should precede.
InOrder(a, b) ==
  \/ scoreOf(a) > scoreOf(b)
  \/ scoreOf(a) = scoreOf(b) /\ rankOf(a) >= rankOf(b)

\* C11: every list the handler returns is ordered by the quality score of the
\* tier, highest first, and between entries of equal score by rank, highest
\* first.
C11_Ordered ==
  /\ Len(result.streams) <= Len(out)
  /\ \A k \in 1..Len(result.streams) : result.streams[k] = out[k].obj
  /\ \A k \in 1..(Len(out) - 1) : InOrder(out[k].st, out[k + 1].st)

\* An answer of 1.9.3 in which the sort moved the second pack to the front.
C11_Witness ==
  /\ pc = "done" /\ ver = "v193" /\ Picked
  /\ Len(result.streams) = 2
  /\ out[1].st = sel.best1080
  /\ out[2].st = sel.final
  /\ scoreOf(out[1].st) > scoreOf(out[2].st)

\* The final pick was reached by a downgrade and the 1080p champion is
\* emitted next to it.
DowngradedWithSecond ==
  /\ pc = "done" /\ Picked
  /\ sel.final # sel.initial
  /\ Len(out) = 2

\* C12, as amended: a secondary 1080p entry next to a downgraded pick occurs
\* only when step 2 took the pick from 1080p to the 720p champion; the
\* secondary entry then has the strictly higher quality score and is listed
\* first.  A pick that step 1 alone produced is 1080p and has no secondary.
C12_SecondFirstAfterStep2 ==
  /\ (DowngradedWithSecond /\ ver # "v192")
       => /\ tierOf(sel.afterA) = "1080p"
          /\ sel.final = sel.best720 /\ tierOf(sel.final) = "720p"
          /\ scoreOf(sel.best1080) > scoreOf(sel.final)
          /\ out[1].st = sel.best1080 /\ out[2].st = sel.final
  /\ (pc = "done" /\ Picked /\ ver # "v192"
        /\ sel.afterA # sel.initial /\ sel.final = sel.afterA)
       => Len(out) <= 1

\* 1.9.3, default thresholds: 1080p with 400 seeds is the top pick, 720p with
\* 1500 seeds replaces it in step 2, and the 1080p entry is listed first.
C12_Witness ==
  /\ DowngradedWithSecond /\ ver = "v193"
  /\ PREF = DefaultPREF
  /\ CandSet = {P1080s400, P720s1500}
  /\ result.streams[1].seeders = 400
  /\ result.streams[2].seeders = 1500

\* C12, as stated: the secondary entry never has a strictly higher quality
\* score than a pick reached by a downgrade, and such a pick is never listed
\* after the secondary entry.
C12_AsStated ==
  (DowngradedWithSecond /\ ver = "v193")
    => /\ ~(scoreOf(sel.best1080) > scoreOf(sel.final))
       /\ out[1].st = sel.final

\* collectStreams has returned to the handler.
Collected == pc \in {"collected", "title", "done"}

\* The position in all of the first record with the reference of all[i].
FirstWithRef(i) ==
  CHOOSE j \in 1..i :
    /\ RefOf(all[j]) = RefOf(all[i])
    /\ \A h \in 1..(j - 1) : RefOf(all[h]) # RefOf(all[i])

\* No two candidates have the same reference, and of the fetched records with
\* one reference the first, in source order, is the candidate.
UniqueRefs ==
  /\ \A i, j \in 1..Len(candidates) :
       (i # j /\ RefOf(candidates[i]) # "") => RefOf(candidates[i]) # RefOf(candidates[j])
  /\ \A i \in 1..Len(all) :
       RefOf(all[i]) # "" => \E k \in 1..Len(candidates) : candidates[k] = all[FirstWithRef(i)]
  /\ \A k \in 1..Len(candidates) : \E i \in 1..Len(all) : candidates[k] = all[i]

\* C13, as amended: in every revision of collectStreams but 1.9.2 the list it
\* returns has no two entries with the same playable reference (the first
\* truthy of url, externalUrl, magnet, infoHash); records with one reference
\* collapse to the first of them in source order, whatever else differs.
C13_NoDuplicateRef == (Collected /\ ver # "v192") => UniqueRefs

\* Two sources gave records with the same url and different titles; the
\* record of the first source is the only candidate.
C13_Witness ==
  /\ Collected /\ ver # "v192"
  /\ Len(all) = 2
  /\ RefOf(all[1]) # "" /\ RefOf(all[1]) = RefOf(all[2])
  /\ all[1].title # all[2].title
  /\ all[1].src # all[2].src
  /\ candidates = <<all[1]>>

\* C13, as stated: in every revision of collectStreams the returned list has
\* no two entries with the same playable reference.
C13_EveryVersion == Collected => UniqueRefs

\* A fetched record as the upstream sent it.
AsSent(st) == [st EXCEPT !.src = NoSrc]

\* C14, as stated (1.9.3): fetched records without any reference field that
\* are equal field for field as the upstreams sent them are one entry of the
\* list collectStreams returns, from one source or from two.
C14_AsStated ==
  (Collected /\ ver = "v193")
    => \A i, j \in 1..Len(all) :
         (RefOf(all[i]) = "" /\ AsSent(all[i]) = AsSent(all[j]))
           => Cardinality({k \in 1..Len(candidates) : AsSent(candidates[k]) = AsSent(all[i])}) = 1

\* Entry k of the answer has the reference fields of the candidate it was
\* built from.
SameRefs(k) ==
  /\ result.streams[k].url = out[k].st.url
  /\ result.streams[k].externalUrl = out[k].st.externalUrl
  /\ result.streams[k].magnet = out[k].st.magnet
  /\ result.streams[k].infoHash = out[k].st.infoHash

\* Entry k differs from its candidate in title, name and grouping hint only.
OnlyRelabelled(k) ==
  /\ result.streams[k].description = out[k].st.description
  /\ result.streams[k].seeders = out[k].st.seeders
  /\ result.streams[k].seeds = out[k].st.seeds
  /\ result.streams[k].src = out[k].st.src
  /\ result.streams[k].notWebReady = "unset"

\* C15, as amended: in the revisions that hand the candidate on (1.5.0, 1.9.2
\* and 1.9.3) every emitted entry has the url, externalUrl, magnet and
\* infoHash of the candidate it was built from; in 1.5.0 and 1.9.3 only
\* title, provider name and grouping hint differ from the candidate.
C15_RefsUnmodified ==
  (pc = "done" /\ ver \in {"v150", "v192", "v193"})
    => /\ Len(result.streams) = Len(out)
       /\ \A k \in 1..Len(out) :
            /\ SameRefs(k)
            /\ ver # "v192" => /\ OnlyRelabelled(k)
                               /\ result.streams[k].name = <<"AutoStream">>
                               /\ result.streams[k].bingeGroup = id

\* 1.9.3 emits a candidate that has an info hash and no url as it came.
C15_Witness ==
  /\ pc = "done" /\ ver = "v193"
  /\ \E k \in 1..Len(result.streams) :
       /\ out[k].st.infoHash # ""
       /\ ~Truthy(out[k].st.url) /\ ~Truthy(out[k].st.magnet)
       /\ SameRefs(k)

\* C15, as stated, for the revisions whose code it cites (1.7.1, 1.8.2 and
\* 1.9.3): every emitted entry has the reference fields of its candidate.
C15_AsStated ==
  (pc = "done" /\ ver \in {"v171", "v182", "v193"})
    => \A k \in 1..Len(result.streams) : SameRefs(k)

\* What a request returns when it runs alone: from its candidates, its title
\* lookup and its configuration, with PREF as loaded at startup.
soloPacks(a) == IF a.thrown THEN <<>> ELSE objsOf(a.out)

soloOfPick(r, s) ==
  IF s.thrown THEN <<>>
  ELSE IF ver = "v192" THEN objsOf(rawPacks(s.final))
  ELSE soloPacks(assemble(ver, s.final, s.best1080, r.niceName, id))

soloStreams(r) ==
  IF r.candidates = <<>> THEN <<>>
  ELSE soloOfPick(r, selectPick(ver, r.candidates, startup,
                                debridOK(ver, r.usedSources, r.cfg)))

\* A request that is done has returned what it returns alone.
AsAlone(r) ==
  /\ r.pc # "start" => r.usedSources = resolveSources(ver, r.cfg)
  /\ r.pc = "done"
       => r.result = [returned |-> TRUE, thrown |-> FALSE, streams |-> soloStreams(r)]

\* C16: two requests interleaved at their awaits are independent: each returns
\* what it returns when it runs alone on the same upstream answers and title
\* lookup, and PREF has the field values it was loaded with, before and after
\* every request (the debrid override goes to the copy of the request).
C16_Independent ==
  /\ PREF = startup
  /\ AsAlone(Me)
  /\ AsAlone(other)

\* 1.9.3: both requests are done, they had the same candidates, and the
\* override of the debrid request made their final picks differ.
C16_Witness ==
  /\ ver = "v193"
  /\ pc = "done" /\ other.pc = "done"
  /\ cfg # other.cfg
  /\ candidates # <<>> /\ candidates = other.candidates
  /\ sel.final # other.sel.final
  /\ result.streams # other.result.streams

\* The position of a source in the list collectStreams walks.
SrcPos(name) == CHOOSE k \in 1..Len(currentList) : currentList[k].name = name

\* The fetched records are in the order of the sources they came from.
InSourceOrder(recs) ==
  \A i, j \in 1..Len(recs) : i < j => SrcPos(recs[i].src) <= SrcPos(recs[j].src)

\* C17: within one request the sources are asked one at a time in list order,
\* a valid custom source (1.9.3) before the static primary list: a call is
\* made only by the loop of collectStreams at its position, the calls made so
\* far are exactly the sources before the position, once each, a call adds
\* its records behind those of the earlier sources, and collectStreams
\* returns only after the last source.
C17_Sequential ==
  [][/\ pc = "start"
          => /\ (ver = "v193" /\ cfg \in {"plain", "debridNoKey", "debridKey"})
                  => /\ Len(usedSources') = 1 + Len(SOURCES)
                     /\ usedSources'[1].name = <<"custom", 1>>
                     /\ SubSeq(usedSources', 2, Len(usedSources')) = SOURCES
             /\ (ver = "v193" /\ cfg \in {"none", "invalid"}) => usedSources' = SOURCES
     /\ asked' # asked
          => /\ pc = "fetch"
             /\ asked[phase] = idx - 1
             /\ asked' = [asked EXCEPT ![phase] = idx]
             /\ idx' = idx + 1
             /\ last'.src = currentList[idx].name
             /\ last'.phase = phase
             /\ SubSeq(all', 1, Len(all)) = all
             /\ Len(all') = Len(all) + last'.got
             /\ ver # "v192" => /\ \A k \in (Len(all) + 1)..Len(all') :
                                      all'[k].src = currentList[idx].name
                                /\ InSourceOrder(all')
     /\ (pc = "fetch" /\ pc' # "fetch")
          => (idx = Len(currentList) /\ asked'[phase] = Len(currentList))
     /\ all' # all => (asked' # asked \/ all' = <<>>)]_vars

\* 1.9.3: the custom source and the primary source both gave a record, and
\* the record of the custom source comes first.
C17_Witness ==
  /\ ver = "v193" /\ pc = "collected" /\ phase = "primary"
  /\ asked.primary = 2
  /\ Len(all) = 2
  /\ all[1].src = <<"custom", 1>>
  /\ all[2].src = <<"primary", 1>>

\* The debrid override is active for the running request.
OverrideOn == ver \notin {"v150", "v192"} /\ debridOK(ver, usedSources, cfg)

\* Step A replaced the pick s.initial by the 1080p champion.
StepAFired(s) == s.afterA # s.initial /\ s.afterA = s.best1080

\* The override did not lower a threshold, and a step A downgrade made with
\* it is also made by the picks base, computed without it.
NotEasier(base) ==
  /\ sel.lp.prefer1080_ratio >= PREF.prefer1080_ratio
  /\ sel.lp.prefer1080_delta >= PREF.prefer1080_delta
  /\ sel.lp.prefer_rule = PREF.prefer_rule
  /\ base.lp = PREF
  /\ (StepAFired(sel) /\ ~base.thrown)
       => (StepAFired(base) /\ base.initial = sel.initial /\ base.afterA = sel.afterA)

\* C18: with the debrid override active the ratio and delta thresholds of step
\* A are at least the base thresholds, so for the same candidates, rule and
\* base configuration every step A downgrade made with the override is also
\* made without it.
C18_OverrideOnlyStricter ==
  (Picked /\ OverrideOn) => NotEasier(selectPick(ver, candidates, PREF, FALSE))

\* 1.9.3 with the override: step A fires all the same.
C18_Witness ==
  /\ Picked /\ OverrideOn /\ ver = "v193"
  /\ sel.lp # PREF
  /\ StepAFired(sel)

\* The seed count the running revision reads from a candidate.
seedsOf(st) == OrZero(extractSeeders(ver, st))

\* isMuchFaster as specified: ratio is sLow / sHigh (infinite for sHigh = 0),
\* delta is sLow - sHigh; "ratio_or_delta" asks for either threshold, any
\* other rule for both.  ratioNeed is in tenths.
Faster(low, high, ratioNeed, deltaNeed, rule) ==
  IF rule = "ratio_or_delta"
  THEN \/ seedsOf(high) = 0
       \/ 10 * seedsOf(low) >= ratioNeed * seedsOf(high)
       \/ seedsOf(low) - seedsOf(high) >= deltaNeed
  ELSE /\ seedsOf(high) = 0 \/ 10 * seedsOf(low) >= ratioNeed * seedsOf(high)
       /\ seedsOf(low) - seedsOf(high) >= deltaNeed

\* The candidates of a tier in the list the picks were taken from.
Bucket(tier) == {i \in 1..Len(sel.list) : tierOf(sel.list[i]) = tier}

\* champ is the champion of the bucket of a tier: none for an empty bucket,
\* else a candidate of the bucket that no other outranks.
IsChampion(champ, tier) ==
  IF Bucket(tier) = {} THEN champ = NoCand
  ELSE \E i \in Bucket(tier) :
         /\ champ = sel.list[i]
         /\ \A j \in Bucket(tier) : rankOf(sel.list[j]) <= rankOf(champ)

\* The condition of step 1.
StepOneDue ==
  /\ tierOf(sel.initial) \in {"2160p", "1440p"}
  /\ Bucket("1080p") # {}
  /\ Faster(sel.best1080, sel.initial, sel.lp.prefer1080_ratio, sel.lp.prefer1080_delta,
            sel.lp.prefer_rule)

\* C19: step 1 makes the 1080p bucket champion the pick if and only if the
\* initial pick is 2160p or 1440p, a 1080p champion exists and
\* isMuchFaster(best1080, initial, ratio1080, delta1080, rule) holds; otherwise
\* the pick after step 1 is the initial pick.
C19_StepOne ==
  (Picked /\ ver # "v192")
    => /\ IsChampion(sel.best1080, "1080p")
       /\ sel.afterA = (IF StepOneDue THEN sel.best1080 ELSE sel.initial)

\* 1.9.3, no override: step 1 replaced a 2160p or 1440p pick.
C19_Witness ==
  /\ Picked /\ ver = "v193" /\ ~OverrideOn
  /\ StepOneDue
  /\ sel.afterA # sel.initial
  /\ tierOf(sel.afterA) = "1080p"

\* The condition of step 2.
StepTwoDue ==
  /\ tierOf(sel.afterA) = "1080p"
  /\ Bucket("720p") # {}
  /\ Faster(sel.best720, sel.afterA, sel.lp.prefer720_ratio, sel.lp.prefer720_delta,
            sel.lp.prefer_rule)

\* C20, as stated, for the revisions whose code it cites (1.6.1 and 1.9.3):
\* step 2 makes the 720p bucket champion the pick if and only if the pick
\* after step 1 is 1080p, a 720p champion exists and
\* isMuchFaster(best720, pick, ratio720, delta720, rule) holds; a 1080p pick
\* stays when the champion fails the test.
C20_AsStated ==
  (Picked /\ ver \in {"v161", "v193"})
    => /\ IsChampion(sel.best720, "720p")
       /\ sel.final = (IF StepTwoDue THEN sel.best720 ELSE sel.afterA)

\* isMuchFaster was called on its own and returned, in a revision whose
\* isMuchFaster takes a rule.
FasterCalled == ret.fn = "isMuchFaster" /\ ver # "v192"

\* The seed counts of the lower-tier and of the higher-tier record of the call.
LowSeeds == candidates[1].seeders
HighSeeds == candidates[2].seeders

\* ratio >= ratioNeed for a higher tier with seeders (ratioNeed in tenths),
\* and delta >= deltaNeed.
RatioMet == 10 * LowSeeds >= ret.val.ratioNeed * HighSeeds
DeltaMet == LowSeeds - HighSeeds >= ret.val.deltaNeed

\* The call of the documentation: 50 against 20 seeds, thresholds 2.0 and 500.
DocCall ==
  /\ LowSeeds = 50 /\ HighSeeds = 20
  /\ ret.val.ratioNeed = 20 /\ ret.val.deltaNeed = 500

\* C21: with ratio = lowerSeeds / higherSeeds and delta = lowerSeeds -
\* higherSeeds, isMuchFaster returns true under "ratio_and_delta" exactly when
\* ratio >= ratioNeed and delta >= deltaNeed both hold, and under
\* "ratio_or_delta" exactly when at least one holds; 50 against 20 seeds with
\* thresholds 2.0 and 500 is false under the first rule and true under the
\* second.
C21_BothOrEither ==
  (FasterCalled /\ HighSeeds > 0)
    => /\ ret.val.rule = "ratio_and_delta" => (ret.val.v <=> (RatioMet /\ DeltaMet))
       /\ ret.val.rule = "ratio_or_delta" => (ret.val.v <=> (RatioMet \/ DeltaMet))
       /\ DocCall => (ret.val.v <=> ret.val.rule = "ratio_or_delta")

\* The call of the documentation under "ratio_and_delta": the ratio passes,
\* the delta does not, and the answer is false.
C21_Witness ==
  /\ FasterCalled /\ ver = "v193"
  /\ DocCall
  /\ ret.val.rule = "ratio_and_delta"
  /\ RatioMet /\ ~DeltaMet
  /\ ~ret.val.v

\* C22: when the higher-tier record has no seeder the ratio test is met for
\* every seed count of the lower tier and every ratioNeed: "ratio_or_delta"
\* answers true, and "ratio_and_delta" answers what the delta test says.
C22_ZeroHigher ==
  (FasterCalled /\ HighSeeds = 0)
    => /\ ret.val.rule = "ratio_or_delta" => ret.val.v
       /\ ret.val.rule = "ratio_and_delta" => (ret.val.v <=> DeltaMet)

\* Neither record has a seeder: true under "ratio_or_delta" with thresholds
\* 2.0 and 500, by the ratio test alone.
C22_Witness ==
  /\ FasterCalled /\ ver = "v193"
  /\ HighSeeds = 0 /\ LowSeeds = 0
  /\ ret.val.rule = "ratio_or_delta"
  /\ ret.val.ratioNeed = 20 /\ ret.val.deltaNeed = 500
  /\ ~DeltaMet
  /\ ret.val.v

\* qualityTag was called on its own and returned (1.9.2 has another one).
TagCalled == ret.fn = "qualityTag" /\ ver # "v192"

\* The keyword sets in their priority order, each with its tag.
TierKeys ==
  <<[kws |-> {"2160", "4k", "uhd"}, tag |-> "2160p"],
    [kws |-> {"1440", "2k"},        tag |-> "1440p"],
    [kws |-> {"1080"},              tag |-> "1080p"],
    [kws |-> {"720"},               tag |-> "720p"],
    [kws |-> {"480"},               tag |-> "480p"],
    [kws |-> {"cam"},               tag |-> "CAM"]>>

\* The keyword sets with a keyword in the label, whatever its case.
TagHits(label) == {k \in 1..Len(TierKeys) : TierKeys[k].kws \cap Keywords(label) # {}}

\* The label of the documentation.
DocLabel == <<"2160p", "proper", "1080p", "repack">>

\* C23: qualityTag returns the tag of the first keyword set, in the order
\* 2160/4k/uhd, 1440/2k, 1080, 720, 480, cam, that has a keyword in the label
\* in either case, and "SD" when none has (so for the empty label); a label
\* with keywords of several tiers gets the tag of the first set:
\* "2160p proper 1080p repack" gives "2160p".
C23_FirstMatch ==
  TagCalled
    => /\ ret.val = (IF TagHits(candidates[1].title) = {} THEN "SD"
                     ELSE TierKeys[Leftmost(TagHits(candidates[1].title))].tag)
       /\ candidates[1].title = <<>> => ret.val = "SD"
       /\ candidates[1].title = DocLabel => ret.val = "2160p"

\* The label of the documentation, tagged "2160p" although "1080" is in it.
C23_Witness ==
  /\ TagCalled /\ ver = "v193"
  /\ candidates[1].title = DocLabel
  /\ "1080" \in Keywords(candidates[1].title)
  /\ ret.val = "2160p"

\* The step in which extractSeeders, called on its own, returns.
ExtractReturns == ret.fn = "" /\ ret'.fn = "extractSeeders"

\* No word of the label of the record is a seed word.
NoSeedWord(st) ==
  \A i \in 1..Len(st.title \o st.name \o st.description) :
    /\ ~SeedUnit((st.title \o st.name \o st.description)[i])
    /\ ~SeedLead((st.title \o st.name \o st.description)[i])

\* What extractSeeders returned for the record: it did not throw; a numeric
\* seeders field, else a numeric seeds field, is the answer; without either
\* and without a seed word in the label the answer is the number 0; and a
\* second call on the record gives the same answer.
SeedFacts(st) ==
  /\ ~ret.val.thrown
  /\ st.seeders # NoNum => ret.val.v = st.seeders
  /\ (st.seeders = NoNum /\ st.seeds # NoNum) => ret.val.v = st.seeds
  /\ (st.seeders = NoNum /\ st.seeds = NoNum /\ NoSeedWord(st)) => ret.val.v = 0
  /\ ret.val.v = extractSeeders(ver, st)

\* C24, as amended: in every revision but 1.9.2 extractSeeders returns the
\* numeric seed field of the record when there is one (the text is read only
\* when there is none), returns the number 0 for a record with no numeric
\* field and no seed count in its text, never throws, leaves the record as it
\* was, and answers a second call with the same value.
C24_NumericFirst ==
  [][(ExtractReturns /\ ver # "v192")
       => (SeedFacts(candidates[1])' /\ candidates' = candidates)]_vars

\* The text says 20 seeds, the seeders field says 50: the answer is 50.
C24_Witness ==
  /\ ret.fn = "extractSeeders" /\ ver = "v193"
  /\ candidates[1].title = <<"20", "seeds">>
  /\ candidates[1].seeders = 50
  /\ ret.val.v = 50
  /\ ~ret.val.thrown

\* C24, as stated: the same in every revision of extractSeeders.
C24_EveryVersion ==
  [][ExtractReturns => (SeedFacts(candidates[1])' /\ candidates' = candidates)]_vars

\* The number word a label embeds as its seed count in one of the forms
\* "N seeds" / "N seeders", "[N seeds]", "seeds: N", alone or after a tier
\* word; "" for a label of no such form.
CountWord(label) ==
  IF Len(label) = 2 /\ label[1] = "seeds:" THEN label[2]
  ELSE IF Len(label) = 2 /\ ToLower(label[2]) \in {"seeds", "seeders", "seeds]"}
       THEN Inner(label[1])
  ELSE IF Len(label) = 3 /\ label[3] = "seeds" THEN label[2]
  ELSE ""

\* extractSeeders was called on a record with no numeric seed field whose
\* label embeds a seed count in a documented form.
CountCalled ==
  /\ ret.fn = "extractSeeders"
  /\ candidates[1].seeders = NoNum /\ candidates[1].seeds = NoNum
  /\ NumVal(CountWord(candidates[1].title)) >= 0

\* C25, as amended: for a candidate without a numeric seed field whose
\* combined label embeds a seed count N in one of the documented forms,
\* extractSeeders returns N when N is written with two to six digits.
C25_TwoToSixDigits ==
  (CountCalled /\ ver # "v192"
     /\ Digits(CountWord(candidates[1].title)) >= 2
     /\ Digits(CountWord(candidates[1].title)) <= 6)
    => ret.val.v = NumVal(CountWord(candidates[1].title))

\* "seeds: 400" and no numeric field: the third pattern recovers 400.
C25_Witness ==
  /\ CountCalled /\ ver = "v193"
  /\ candidates[1].title = <<"seeds:", "400">>
  /\ ret.val.v = 400

\* C25, as stated: extractSeeders returns N for every non-negative integer N,
\* single-digit counts included.
C25_AsStated ==
  (CountCalled /\ ver = "v193") => ret.val.v = NumVal(CountWord(candidates[1].title))

\* rankStream was called on two records and returned their ranks.
RankCalled == ret.fn = "rankStream"

\* The tier and the preference bonus of a record rankStream was called on.
TagIn(i) == qualityTag(ver, candidates[i].title)
BonusIn(i) == preferenceBonus(candidates[i].title)

\* C26: rank is monotonically non-decreasing in the seed count: of two
\* candidates of the same tier and the same preference bonus, the one with at
\* least as many seeders has a rank greater than or equal to the other's.
C26_MonotoneInSeeds ==
  (RankCalled /\ TagIn(1) = TagIn(2) /\ BonusIn(1) = BonusIn(2)
     /\ candidates[1].seeders >= candidates[2].seeders)
    => ret.val[1] >= ret.val[2]

\* Two 720p records with the same bonus, 10000 against 20 seeders: the first
\* has the greater rank.
C26_Witness ==
  /\ RankCalled /\ ver = "v193"
  /\ TagIn(1) = "720p" /\ TagIn(2) = "720p"
  /\ BonusIn(1) = BonusIn(2)
  /\ candidates[1].seeders = 10000 /\ candidates[2].seeders = 20
  /\ ret.val[1] > ret.val[2]

\* The position of a tier in an order of the tiers.
PosIn(order, tag) == CHOOSE k \in 1..Len(order) : order[k] = tag

\* The order of the tiers by their quality score (CAM scores 10, unknown 360),
\* and the order as the claim lists them.
ScoreOrder == <<"2160p", "1440p", "1080p", "720p", "480p", "SD", "CAM">>
ListedOrder == <<"2160p", "1440p", "1080p", "720p", "480p", "CAM", "SD">>

\* C27, as amended: at equal seed counts the candidate of the higher tier has
\* the strictly greater rank, in the order 2160p > 1440p > 1080p > 720p > 480p
\* > unknown > CAM when the two earn the same preference bonus, and whatever
\* bonuses their labels earn when both tiers are among 2160p > 1440p > 1080p >
\* 720p (a 2160p candidate always outranks a 720p one with the same seeds).
C27_OrderedByTier ==
  (RankCalled /\ candidates[1].seeders = candidates[2].seeders
     /\ PosIn(ScoreOrder, TagIn(1)) < PosIn(ScoreOrder, TagIn(2))
     /\ (BonusIn(1) = BonusIn(2) \/ PosIn(ScoreOrder, TagIn(2)) <= 4))
    => ret.val[1] > ret.val[2]

\* A 2160p record with no bonus word outranks a 720p record with all of them
\* at the same seed count.
C27_Witness ==
  /\ RankCalled /\ ver = "v193"
  /\ TagIn(1) = "2160p" /\ TagIn(2) = "720p"
  /\ BonusIn(1) = 0 /\ BonusIn(2) = 280
  /\ candidates[1].seeders = candidates[2].seeders
  /\ ret.val[1] > ret.val[2]

\* C27, as stated: at equal seed counts the candidate of the higher tier in
\* the order 2160p > 1440p > 1080p > 720p > 480p > CAM > unknown has the
\* strictly greater rank, whatever preference bonuses the labels earn.
C27_AsStated ==
  (RankCalled /\ ver = "v193" /\ candidates[1].seeders = candidates[2].seeders
     /\ PosIn(ListedOrder, TagIn(1)) < PosIn(ListedOrder, TagIn(2)))
    => ret.val[1] > ret.val[2]

\* The initial pick, when its tier has a bucket, is the champion of that
\* bucket, and for 1080p and 720p the champion the handler keeps.
ChampionsAgree ==
  /\ tierOf(sel.initial) \in {"2160p", "1440p", "1080p", "720p"}
       => sel.initial = bestOfQuality(ver, sel.list, tierOf(sel.initial))
  /\ tierOf(sel.initial) = "1080p" => sel.initial = sel.best1080
  /\ tierOf(sel.initial) = "720p" => sel.initial = sel.best720

\* C28: whenever the initial pick (the first candidate of greatest rank) has
\* one of the tiers 2160p, 1440p, 1080p, 720p, it is the very candidate that
\* bestOfQuality returns for that tier; and taking the initial pick and the
\* champions leaves the candidate list as collectStreams returned it, in
\* order and content (in 1.9.3 it is the list the picks were taken from).
C28_PickIsChampion ==
  (Picked /\ ver # "v192")
    => /\ ChampionsAgree
       /\ candidates = primary.cands
       /\ ver = "v193" => sel.list = candidates

\* Two 1080p candidates and nothing above them: the initial pick is the one
\* with 400 seeders, second in the list, and so is the 1080p champion.
C28_Witness ==
  /\ Picked /\ ver = "v193"
  /\ Len(candidates) >= 2
  /\ tierOf(candidates[1]) = "1080p" /\ tierOf(candidates[2]) = "1080p"
  /\ sel.initial = candidates[2]
  /\ sel.best1080 = candidates[2]
  /\ sel.list = candidates
  /\ candidates = primary.cands

\* A step replaced the pick: step 1 the initial pick, step 2 the pick after
\* step 1.
StepOneReplaced == sel.afterA # sel.initial
StepTwoReplaced == sel.final # sel.afterA

\* Under "ratio_or_delta" a replacement shows more seeders only if the pick
\* that is replaced has a seeder and the ratio asked for is above 1.0.
MoreSeedsDue(pick, ratioNeed) ==
  \/ sel.lp.prefer_rule = "ratio_and_delta"
  \/ seedsOf(pick) > 0 /\ ratioNeed > 10

\* C29, as amended: whenever a downgrade step replaces the pick (thresholds
\* above 0, seed counts not negative), the lower-tier champion that replaces
\* it has strictly more seeders than the pick it replaces under the rule
\* "ratio_and_delta", and under "ratio_or_delta" when the replaced pick has
\* at least one seeder and ratioNeed is above 1.0.
C29_MoreSeeders ==
  (Picked /\ ver \notin {"v161", "v192"})
    => /\ (StepOneReplaced /\ MoreSeedsDue(sel.initial, sel.lp.prefer1080_ratio))
            => seedsOf(sel.afterA) > seedsOf(sel.initial)
       /\ (StepTwoReplaced /\ MoreSeedsDue(sel.afterA, sel.lp.prefer720_ratio))
            => seedsOf(sel.final) > seedsOf(sel.afterA)

\* Both steps replaced the pick under "ratio_or_delta", each time by a
\* champion with more seeders.
C29_Witness ==
  /\ Picked /\ ver = "v193"
  /\ sel.lp.prefer_rule = "ratio_or_delta"
  /\ sel.lp.prefer1080_ratio > 10
  /\ StepOneReplaced /\ StepTwoReplaced
  /\ seedsOf(sel.initial) > 0
  /\ seedsOf(sel.afterA) > seedsOf(sel.initial)
  /\ seedsOf(sel.final) > seedsOf(sel.afterA)

\* C29, as stated: whenever a downgrade step replaces the pick, the champion
\* that replaces it has strictly more seeders, under both rules.
C29_AsStated ==
  (Picked /\ ver = "v193")
    => /\ StepOneReplaced => seedsOf(sel.afterA) > seedsOf(sel.initial)
       /\ StepTwoReplaced => seedsOf(sel.final) > seedsOf(sel.afterA)

\* The final pick is not 1080p and there is a 1080p champion.
ChampionBeside == tierOf(sel.final) # "1080p" /\ sel.best1080 # NoCand

\* Two records share a playable reference: each has one (the first truthy of
\* url, externalUrl, magnet, infoHash) and it is the same.
ShareRef(a, b) == RefOf(a) # "" /\ RefOf(a) = RefOf(b)

\* C30: in the pass-through handler (1.9.3) the comparison of the references
\* never holds the second entry back, because collectStreams has kept one
\* record of each reference: whenever the final pick is not 1080p and a 1080p
\* champion exists the answer has exactly two entries, the pick and the
\* champion, which do not share a playable reference; otherwise it has
\* exactly one.
C30_NeverSuppressed ==
  (pc = "done" /\ ver = "v193" /\ Picked)
    => /\ Len(result.streams) = (IF ChampionBeside THEN 2 ELSE 1)
       /\ result.streams = objsOf(out)
       /\ ChampionBeside
            => /\ ~ShareRef(sel.final, sel.best1080)
               /\ ~ShareRef(result.streams[1], result.streams[2])
               /\ \E k \in 1..2 : out[k].st = sel.final /\ out[3 - k].st = sel.best1080

\* A 2160p and a 1080p record with different urls: two entries with different
\* references.
C30_Witness ==
  /\ pc = "done" /\ ver = "v193" /\ Picked
  /\ ChampionBeside
  /\ Len(result.streams) = 2
  /\ RefOf(result.streams[1]) # "" /\ RefOf(result.streams[2]) # ""
  /\ RefOf(result.streams[1]) # RefOf(result.streams[2])
====
